---- MODULE Spec2Model ----
(***************************************************************************)
(* Model of main.py: the assessment endpoints (POST/PUT /avaliacoes), the  *)
(* equipment and other-resource lines, the audit tables, the credential    *)
(* store, the JWT issuer/verifier, the access guard, the administration of *)
(* the accounts and the bootstrap of the administrator.  Every handler is  *)
(* split at its db.commit() calls, because each commit ends one database   *)
(* transaction; criar_usuario and the bootstrap are split at their query   *)
(* as well, because another session may commit between query and INSERT.   *)
(***************************************************************************)
EXTENDS Integers, Sequences, FiniteSets, TLC

\* ------------------------------------------------------------------------
\* Bounds of the model
\* ------------------------------------------------------------------------
MaxAvaliacoes == 2
MaxAuditoria == 3
MaxCamposPayload == 2
MaxUsuarios == 2
MaxAuditoriaUsuarios == 2
MaxTokens == 2
MaxAgora == 481
MaxLinhas == 2
MaxAuditoriaLinhas == 4
MaxEventos == 4

\* The request slots (one request in flight at a time under Spec).
Reqs == {1}

\* Optional[...] values: None is the empty tuple, a present value a 1-tuple.
None == <<>>
Some(v) == <<v>>

\* ------------------------------------------------------------------------
\* Dates and date text
\* ------------------------------------------------------------------------
Digitos == <<"0", "1", "2", "3", "4", "5", "6", "7", "8", "9">>

EhDigito(c) == \E i \in 1..10 : Digitos[i] = c

ValorDigito(c) == (CHOOSE i \in 1..10 : Digitos[i] = c) - 1

\* int() of a run of decimal digits
RECURSIVE ValorNumero(_)
ValorNumero(s) ==
    IF s = <<>> THEN 0
    ELSE 10 * ValorNumero(SubSeq(s, 1, Len(s) - 1)) + ValorDigito(s[Len(s)])

Bissexto(ano) == (ano % 4 = 0 /\ ano % 100 # 0) \/ ano % 400 = 0

DiasNoMes(ano, mes) ==
    IF mes = 2 THEN (IF Bissexto(ano) THEN 29 ELSE 28)
    ELSE IF mes \in {4, 6, 9, 11} THEN 30 ELSE 31

\* %m of strptime: 1[0-2] | 0[1-9] | [1-9]
CasaMes(s) ==
    \/ Len(s) = 2 /\ s[1] = "1" /\ s[2] \in {"0", "1", "2"}
    \/ Len(s) = 2 /\ s[1] = "0" /\ EhDigito(s[2]) /\ s[2] # "0"
    \/ Len(s) = 1 /\ EhDigito(s[1]) /\ s[1] # "0"

\* %d of strptime: 3[01] | [12]\d | 0[1-9] | [1-9] | " "[1-9]
CasaDia(s) ==
    \/ Len(s) = 2 /\ s[1] = "3" /\ s[2] \in {"0", "1"}
    \/ Len(s) = 2 /\ s[1] \in {"1", "2"} /\ EhDigito(s[2])
    \/ Len(s) = 2 /\ s[1] \in {"0", " "} /\ EhDigito(s[2]) /\ s[2] # "0"
    \/ Len(s) = 1 /\ EhDigito(s[1]) /\ s[1] # "0"

ValorDia(s) == IF s[1] = " " THEN ValorDigito(s[2]) ELSE ValorNumero(s)

\* the position of the "-" that ends the month, counted in the text
FimDoMes(t) == IF Len(t) >= 7 /\ t[7] = "-" THEN 7 ELSE 8

\* the text matches the regular expression of "%Y-%m-%d" to its end
CasaFormato(t) ==
    /\ Len(t) >= 8
    /\ Len(t) <= 10
    /\ \A i \in 1..4 : EhDigito(t[i])
    /\ t[5] = "-"
    /\ Len(t) >= FimDoMes(t) + 1
    /\ t[FimDoMes(t)] = "-"
    /\ CasaMes(SubSeq(t, 6, FimDoMes(t) - 1))
    /\ CasaDia(SubSeq(t, FimDoMes(t) + 1, Len(t)))

CamposData(t) ==
    [ano |-> ValorNumero(SubSeq(t, 1, 4)),
     mes |-> ValorNumero(SubSeq(t, 6, FimDoMes(t) - 1)),
     dia |-> ValorDia(SubSeq(t, FimDoMes(t) + 1, Len(t)))]

\* datetime.strptime(t, "%Y-%m-%d").date(): <<>> stands for ValueError
Strptime(t) ==
    IF ~CasaFormato(t) THEN None
    ELSE LET d == CamposData(t) IN
         IF d.ano >= 1 /\ d.dia <= DiasNoMes(d.ano, d.mes) THEN Some(d)
         ELSE None

DoisDigitos(n) == <<Digitos[(n \div 10) + 1], Digitos[(n % 10) + 1]>>

\* str(date): the ISO text, zero padded
DataStr(d) ==
    DoisDigitos(d.ano \div 100) \o DoisDigitos(d.ano % 100) \o <<"-">>
        \o DoisDigitos(d.mes) \o <<"-">> \o DoisDigitos(d.dia)

\* ------------------------------------------------------------------------
\* Numbers: a Python float is kept as its decimal literal in thousandths, a
\* NUMERIC(10, 2) column value (decimal.Decimal) in hundredths
\* ------------------------------------------------------------------------
Float(milesimos) == [tipo |-> "float", v |-> milesimos]

Decimal(centesimos) == [tipo |-> "Decimal", v |-> centesimos]

\* the value of a number in thousandths, whatever its type
Milesimos(x) == IF x.tipo = "Decimal" THEN 10 * x.v ELSE x.v

\* a float is a binary fraction: of the literals in thousandths only the
\* multiples of 1/8 are held exactly
FloatExato(x) == x.v % 125 = 0

\* Python's ==, which compares a float and a Decimal by their exact values
PyIgualNumero(a, b) ==
    IF a.tipo = b.tipo THEN a.v = b.v
    ELSE IF a.tipo = "float" THEN FloatExato(a) /\ Milesimos(a) = Milesimos(b)
    ELSE FloatExato(b) /\ Milesimos(a) = Milesimos(b)

\* what a NUMERIC(10, 2) column keeps of a value bound to it, as read back
ParaNumeric(x) ==
    IF x.tipo = "Decimal" THEN x ELSE Decimal((x.v + 5) \div 10)

\* ------------------------------------------------------------------------
\* The avaliacoes row (the columns the model keeps) and the inputs
\* ------------------------------------------------------------------------
D1 == [ano |-> 2024, mes |-> 3, dia |-> 1]

TextosData ==
    { <<"2", "0", "2", "4", "-", "0", "3", "-", "0", "1">>,
      <<"2", "0", "2", "4", "-", "3", "-", "1">>,
      <<"2", "0", "2", "4", "-", "0", "3", "-", "0", "2">>,
      <<"2", "0", "2", "4", "-", "0", "2", "-", "3", "0">>,
      <<"0", "1", "/", "0", "3", "/", "2", "0", "2", "4">> }

Clientes == {"ACME", "Beta"}

Opcional(S) == {None} \cup {Some(v) : v \in S}

CamposAvaliacao == <<"cliente_nome", "data_avaliacao", "status", "q3_tamanho_total_m">>

NumCampos(p) == Cardinality({i \in 1..Len(CamposAvaliacao) : p[CamposAvaliacao[i]] # None})

\* AvaliacaoCreateSchema, after Pydantic has validated it
PayloadsCriar ==
    [cliente_nome : {Some("ACME")},
     data_avaliacao : Opcional({D1}),
     status : Opcional({"", "aprovado"}),
     q3_tamanho_total_m : {None}]

\* AvaliacaoUpdateSchema: every field Optional, data_avaliacao a text
PayloadsAtualizar ==
    {p \in [cliente_nome : Opcional(Clientes),
            data_avaliacao : Opcional(TextosData),
            status : Opcional({"aprovado"}),
            q3_tamanho_total_m : Opcional({Float(10500), Float(100)})] :
        NumCampos(p) <= MaxCamposPayload}

PayloadVazio ==
    [cliente_nome |-> None, data_avaliacao |-> None, status |-> None,
     q3_tamanho_total_m |-> None]

\* ------------------------------------------------------------------------
\* Passwords: pwd_context (pbkdf2_sha256)
\* ------------------------------------------------------------------------
\* the salts pwd_context.hash may draw
Sais == {"sal1", "sal2"}

Senhas == {"admin123", "s3nha"}

\* the PBKDF2 digest, free of collisions: it is determined by, and
\* determines, the password and the salt
Pbkdf2(senha, sal) == [senha |-> senha, sal |-> sal]

\* gerar_hash_senha, given the salt pwd_context.hash has drawn
GerarHashSenha(senha_plana, sal) == [sal |-> sal, resumo |-> Pbkdf2(senha_plana, sal)]

\* VerificarSenha accepting any password
VerificarSenha_QualquerSenha(senha_plana, senha_hash) ==
    senha_hash.sal \in Sais

\* verificar_senha: the digest is computed again with the salt of the hash
VerificarSenha(senha_plana, senha_hash) ==
    Pbkdf2(senha_plana, senha_hash.sal) = senha_hash.resumo

\* ------------------------------------------------------------------------
\* The usuarios row (the columns the model keeps)
\* ------------------------------------------------------------------------
EmailAdmin == "miguelribeiro.dev1@gmail.com"

\* NovoUsuario without the flag that forces the change of password
NovoUsuario_SemTroca(id, email, username, senha_hash, is_admin) ==
    [id |-> id, email |-> email, username |-> username, senha_hash |-> senha_hash,
     is_admin |-> is_admin, precisa_trocar_senha |-> FALSE, ativo |-> TRUE]

\* Usuario(...) with the column defaults of precisa_trocar_senha and ativo
NovoUsuario(id, email, username, senha_hash, is_admin) ==
    [id |-> id, email |-> email, username |-> username, senha_hash |-> senha_hash,
     is_admin |-> is_admin, precisa_trocar_senha |-> TRUE, ativo |-> TRUE]

\* CriarAdminSeNaoExistir creating an account without the administrator role
CriarAdminSeNaoExistir_SemPapel(db, id, sal) ==
    IF \E i \in 1..Len(db) : db[i].username = "admin"
    THEN db
    ELSE Append(db, NovoUsuario(id, EmailAdmin, "admin",
                                GerarHashSenha("admin123", sal), FALSE))

\* CriarAdminSeNaoExistir creating an account that is not active
CriarAdminSeNaoExistir_Inativo(db, id, sal) ==
    IF \E i \in 1..Len(db) : db[i].username = "admin"
    THEN db
    ELSE Append(db, [NovoUsuario(id, EmailAdmin, "admin",
                                 GerarHashSenha("admin123", sal), TRUE)
                         EXCEPT !.ativo = FALSE])

\* criar_admin_se_nao_existir on the table db, id being the next value of the
\* sequence and sal the salt drawn for the hash
CriarAdminSeNaoExistir(db, id, sal) ==
    IF \E i \in 1..Len(db) : db[i].username = "admin"
    THEN db
    ELSE Append(db, NovoUsuario(id, EmailAdmin, "admin",
                                GerarHashSenha("admin123", sal), TRUE))

\* ObterUsuarioPorUsername without the filter on ativo
ObterUsuarioPorUsername_SemFiltro(db, username) ==
    IF \E i \in 1..Len(db) : db[i].username = username
    THEN Some(db[CHOOSE i \in 1..Len(db) : db[i].username = username])
    ELSE None

\* obter_usuario_por_username: the active row of that username, if any
ObterUsuarioPorUsername(db, username) ==
    IF \E i \in 1..Len(db) : db[i].username = username /\ db[i].ativo
    THEN Some(db[CHOOSE i \in 1..Len(db) : db[i].username = username /\ db[i].ativo])
    ELSE None

\* autenticar_usuario
AutenticarUsuario(db, username, senha_plana) ==
    LET usuario == ObterUsuarioPorUsername(db, username)
    IN IF usuario = None THEN None
       ELSE IF ~VerificarSenha(senha_plana, usuario[1].senha_hash) THEN None
       ELSE usuario

\* ------------------------------------------------------------------------
\* Access tokens: jose.jwt with HS256
\* ------------------------------------------------------------------------
SECRET_KEY == "troque-esta-chave-em-producao"

ChaveErrada == "outra-chave"

ACCESS_TOKEN_EXPIRE_MINUTES == 60 * 8

\* the HMAC of a payload under a key, free of collisions
Assinar(chave, payload) == [chave |-> chave, payload |-> payload]

\* jwt.encode
JwtEncode(payload, chave) == [payload |-> payload, assinatura |-> Assinar(chave, payload)]

\* criar_token_acesso at the instant utcnow; a timedelta of zero is falsy
CriarTokenAcesso(dados, expira_em, utcnow) ==
    LET expire == IF expira_em # None /\ expira_em[1] # 0
                  THEN utcnow + expira_em[1]
                  ELSE utcnow + ACCESS_TOKEN_EXPIRE_MINUTES
    IN JwtEncode([sub |-> dados.sub, exp |-> expire], SECRET_KEY)

\* JwtDecode without the check of exp
JwtDecode_SemExp(token, chave, utcnow) ==
    IF token.assinatura # Assinar(chave, token.payload) THEN None
    ELSE Some(token.payload)

\* jwt.decode at the instant utcnow: the payload, or None for a JWTError.
\* The signature is checked first; the token has expired when exp < now.
JwtDecode(token, chave, utcnow) ==
    IF token.assinatura # Assinar(chave, token.payload) THEN None
    ELSE IF token.payload.exp < utcnow THEN None
    ELSE Some(token.payload)

\* obter_usuario_atual, its try block: the username of the token, or None
\* where it raises cred_exc.  Without an Authorization header oauth2_scheme
\* has already answered 401.
UsernameDoToken(token, utcnow) ==
    IF token = None THEN None
    ELSE LET payload == JwtDecode(token[1], SECRET_KEY, utcnow)
         IN IF payload = None THEN None ELSE payload[1].sub

\* obter_usuario_atual: the status it raises (0 if none) and the user
ObterUsuarioAtual(db, token, utcnow) ==
    LET username == UsernameDoToken(token, utcnow)
    IN IF username = None THEN [status |-> 401, usuario |-> None]
       ELSE LET usuario == ObterUsuarioPorUsername(db, username[1])
            IN IF usuario = None THEN [status |-> 401, usuario |-> None]
               ELSE IF ~usuario[1].ativo THEN [status |-> 403, usuario |-> None]
               ELSE [status |-> 0, usuario |-> usuario]

\* ObterAdminAtual without the check of the role
ObterAdminAtual_SemPapel(db, token, utcnow) ==
    ObterUsuarioAtual(db, token, utcnow)

\* obter_admin_atual
ObterAdminAtual(db, token, utcnow) ==
    LET atual == ObterUsuarioAtual(db, token, utcnow)
    IN IF atual.status # 0 THEN atual
       ELSE IF ~atual.usuario[1].is_admin THEN [status |-> 403, usuario |-> None]
       ELSE atual

\* OAuth2PasswordRequestForm
Formularios == [username : {"admin", "ana", "zoe"}, password : Senhas]

SemFormulario == [username |-> "", password |-> ""]

\* UsuarioCreateSchema
PayloadsUsuario ==
    [email : {EmailAdmin, "ana@nortetel"}, username : {"admin", "ana"},
     senha : {"s3nha"}, is_admin : BOOLEAN]

\* tokens signed with SECRET_KEY that login has not handed out: one without
\* a subject, one of a username that no account has
TokensAvulsos ==
    { JwtEncode([sub |-> None, exp |-> 2 * ACCESS_TOKEN_EXPIRE_MINUTES], SECRET_KEY),
      JwtEncode([sub |-> Some("zoe"), exp |-> 2 * ACCESS_TOKEN_EXPIRE_MINUTES],
                SECRET_KEY) }

\* what a client can make of a token without the key: another signature, or
\* another subject under the signature it has
Adulterados(t) ==
    { [t EXCEPT !.assinatura = Assinar(ChaveErrada, t.payload)],
      [t EXCEPT !.payload.sub = Some("admin")] }

\* the Authorization headers a request may carry, given the tokens handed out
TokensApresentados(emitidos) ==
    {None} \cup {Some(t) : t \in emitidos \cup TokensAvulsos
                                  \cup UNION {Adulterados(e) : e \in emitidos}}

\* ------------------------------------------------------------------------
\* State
\* ------------------------------------------------------------------------
VARIABLES
    avaliacoes,            \* table avaliacoes: the committed rows, in id order
    avaliacoes_id_seq,     \* the serial sequence behind avaliacoes.id
    avaliacoes_auditoria,  \* table avaliacoes_auditoria: the committed rows
    avaliacoes_auditoria_id_seq,  \* the serial sequence behind avaliacoes_auditoria.id
    usuarios,              \* table usuarios: the committed rows, in id order
    usuarios_id_seq,       \* the serial sequence behind usuarios.id
    usuarios_auditoria,    \* table usuarios_auditoria: the committed rows
    tokens,                \* the access tokens login has handed out
    agora,                 \* datetime.utcnow(), in minutes
    avaliacoes_equipamentos,         \* table avaliacoes_equipamentos: the committed rows
    avaliacoes_equipamentos_id_seq,  \* the serial sequence behind its id
    avaliacoes_outros_recursos,      \* table avaliacoes_outros_recursos: the committed rows
    avaliacoes_outros_recursos_id_seq,  \* the serial sequence behind its id
    req                    \* per request slot: the handler's position and locals

varsAvaliacoes ==
    <<avaliacoes, avaliacoes_id_seq, avaliacoes_auditoria, avaliacoes_auditoria_id_seq>>

varsUsuarios == <<usuarios, usuarios_id_seq, usuarios_auditoria, tokens, agora>>

varsLinhas ==
    <<avaliacoes_equipamentos, avaliacoes_equipamentos_id_seq,
      avaliacoes_outros_recursos, avaliacoes_outros_recursos_id_seq>>

vars == <<varsAvaliacoes, varsUsuarios, varsLinhas, req>>

\* json.dumps({"alteracoes": alteracoes}); the plain details are text
JsonAlteracoes(alteracoes) == [formato |-> "json", texto |-> "", alteracoes |-> alteracoes]

Texto(t) == [formato |-> "texto", texto |-> t, alteracoes |-> <<>>]

SemResposta == [status |-> 0, corpo |-> None]

ReqOciosa ==
    [pc |-> "idle", op |-> "nenhuma", avaliacao_id |-> 0, payload |-> PayloadVazio,
     antes |-> None, alteracoes |-> <<>>, detalhe_log |-> Texto(""), n_auditoria |-> 0,
     form_data |-> SemFormulario, token |-> None, username |-> None, usuario |-> None,
     usuario_id |-> 0, acao |-> "", linha |-> None, resposta |-> SemResposta]

\* The database after create_all and the first criar_admin_se_nao_existir(),
\* which run when the module is imported, before any request is served.  The
\* salt of the first hash stands for any: nothing tells two salts apart.
Init ==
    /\ avaliacoes = <<>>
    /\ avaliacoes_id_seq = 0
    /\ avaliacoes_auditoria = <<>>
    /\ avaliacoes_auditoria_id_seq = 0
    /\ usuarios = CriarAdminSeNaoExistir(<<>>, 1, "sal1")
    /\ usuarios_id_seq = 1
    /\ usuarios_auditoria = <<>>
    /\ tokens = {}
    /\ agora = 0
    /\ avaliacoes_equipamentos = <<>>
    /\ avaliacoes_equipamentos_id_seq = 0
    /\ avaliacoes_outros_recursos = <<>>
    /\ avaliacoes_outros_recursos_id_seq = 0
    /\ req = [r \in Reqs |-> ReqOciosa]

\* a slot takes a new request once its previous one has been closed
Livre(r) == req[r].pc = "idle"

\* db.query(Avaliacao).filter(Avaliacao.id == id).first()
ObterAvaliacao(id) ==
    IF \E i \in 1..Len(avaliacoes) : avaliacoes[i].id = id
    THEN Some(avaliacoes[CHOOSE i \in 1..Len(avaliacoes) : avaliacoes[i].id = id])
    ELSE None

\* the row a flushed object becomes: the NUMERIC column coerces its value
Persistida(av) ==
    IF av.q3_tamanho_total_m = None THEN av
    ELSE [av EXCEPT !.q3_tamanho_total_m = Some(ParaNumeric(av.q3_tamanho_total_m[1]))]

\* UPDATE avaliacoes ... WHERE id = av.id
GravarAvaliacao(tabela, av) ==
    [i \in 1..Len(tabela) |-> IF tabela[i].id = av.id THEN Persistida(av) ELSE tabela[i]]

SemAlteracoes == Texto("Atualizacao chamada, mas nenhum campo foi alterado.")

AvaliacaoAuditoria(id, avaliacao_id, acao, detalhes) ==
    [id |-> id, avaliacao_id |-> avaliacao_id, usuario |-> "sistema", acao |-> acao,
     detalhes |-> detalhes]

\* ------------------------------------------------------------------------
\* POST /avaliacoes
\* ------------------------------------------------------------------------
\* NovaAvaliacao without the "or 'aberto'" of the status
NovaAvaliacao_SemPadrao(id, payload) ==
    [id |-> id,
     cliente_nome |-> payload.cliente_nome[1],
     data_avaliacao |-> payload.data_avaliacao[1],
     status |-> IF payload.status = None THEN "" ELSE payload.status[1],
     q3_tamanho_total_m |-> payload.q3_tamanho_total_m]

\* Avaliacao(...): the object criar_avaliacao builds from the payload
NovaAvaliacao(id, payload) ==
    [id |-> id,
     cliente_nome |-> payload.cliente_nome[1],
     data_avaliacao |-> payload.data_avaliacao[1],
     status |-> IF payload.status \in {None, Some("")} THEN "aberto"
                ELSE payload.status[1],
     q3_tamanho_total_m |-> payload.q3_tamanho_total_m]

\* criar_avaliacao up to its first commit.  The INSERT draws the id from the
\* sequence; a NULL data_avaliacao violates NOT NULL and fails the request.
CriarAvaliacao(r, payload) ==
    /\ Livre(r)
    /\ avaliacoes_id_seq < MaxAvaliacoes
    /\ avaliacoes_auditoria_id_seq < MaxAuditoria
    /\ avaliacoes_id_seq' = avaliacoes_id_seq + 1
    /\ IF payload.data_avaliacao = None
       THEN /\ req' = [req EXCEPT ![r] =
                  [ReqOciosa EXCEPT !.pc = "done", !.op = "criar", !.payload = payload,
                                    !.n_auditoria = Len(avaliacoes_auditoria),
                                    !.resposta = [status |-> 500, corpo |-> None]]]
            /\ UNCHANGED avaliacoes
       ELSE /\ avaliacoes' = Append(avaliacoes,
                  Persistida(NovaAvaliacao(avaliacoes_id_seq + 1, payload)))
            /\ req' = [req EXCEPT ![r] =
                  [ReqOciosa EXCEPT !.pc = "criar_log", !.op = "criar",
                                    !.payload = payload,
                                    !.avaliacao_id = avaliacoes_id_seq + 1,
                                    !.n_auditoria = Len(avaliacoes_auditoria)]]
    /\ UNCHANGED <<varsLinhas, avaliacoes_auditoria, avaliacoes_auditoria_id_seq, varsUsuarios>>

\* criar_avaliacao from the CRIAR log to its return
CriarAvaliacaoLog(r) ==
    /\ req[r].pc = "criar_log"
    /\ avaliacoes_auditoria_id_seq' = avaliacoes_auditoria_id_seq + 1
    /\ avaliacoes_auditoria' = Append(avaliacoes_auditoria,
           AvaliacaoAuditoria(avaliacoes_auditoria_id_seq + 1, req[r].avaliacao_id,
                              "CRIAR", Texto("Avaliacao criada via API")))
    /\ req' = [req EXCEPT ![r].pc = "done",
                          ![r].resposta = [status |-> 200,
                                           corpo |-> ObterAvaliacao(req[r].avaliacao_id)]]
    /\ UNCHANGED <<varsLinhas, avaliacoes, avaliacoes_id_seq, varsUsuarios>>

\* ------------------------------------------------------------------------
\* PUT /avaliacoes/{avaliacao_id}
\* ------------------------------------------------------------------------
Entrada(campo, antes, depois) == [campo |-> campo, antes |-> antes, depois |-> depois]

\* valor_novo != valor_atual, on the Python values the two sides hold
PyDiferente(nome, valor_novo, valor_atual) ==
    IF nome = "q3_tamanho_total_m"
    THEN valor_atual = None \/ ~PyIgualNumero(valor_novo, valor_atual[1])
    ELSE valor_novo # valor_atual

\* the nested atualiza_campo: does the payload change column nome?
CampoMuda(av, payload, nome) ==
    /\ payload[nome] # None
    /\ PyDiferente(nome, payload[nome][1], av[nome])

\* atualiza_campo: the change entry it appends, if any
AtualizaCampo(av, payload, nome) ==
    IF CampoMuda(av, payload, nome)
    THEN <<Entrada(nome, av[nome], payload[nome][1])>>
    ELSE <<>>

\* the block for cliente_nome
AlteraClienteNome(av, payload) ==
    IF payload.cliente_nome # None /\ payload.cliente_nome[1] # av.cliente_nome
    THEN <<Entrada("cliente_nome", av.cliente_nome, payload.cliente_nome[1])>>
    ELSE <<>>

\* the block for data_avaliacao, once strptime has succeeded
AlteraDataAvaliacao(av, payload) ==
    IF payload.data_avaliacao # None
          /\ Strptime(payload.data_avaliacao[1])[1] # av.data_avaliacao
    THEN <<Entrada("data_avaliacao", DataStr(av.data_avaliacao),
                   payload.data_avaliacao[1])>>
    ELSE <<>>

\* the list alteracoes, in the order the handler appends to it
CalcularAlteracoes(av, payload) ==
    AlteraClienteNome(av, payload) \o AlteraDataAvaliacao(av, payload)
        \o AtualizaCampo(av, payload, "status")
        \o AtualizaCampo(av, payload, "q3_tamanho_total_m")

\* AvaliacaoAlterada as a full replace: an absent status falls back to "aberto"
AvaliacaoAlterada_Substitui(av, payload) ==
    [id |-> av.id,
     cliente_nome |-> IF AlteraClienteNome(av, payload) # <<>>
                      THEN payload.cliente_nome[1] ELSE av.cliente_nome,
     data_avaliacao |-> IF AlteraDataAvaliacao(av, payload) # <<>>
                        THEN Strptime(payload.data_avaliacao[1])[1]
                        ELSE av.data_avaliacao,
     status |-> IF payload.status # None THEN payload.status[1] ELSE "aberto",
     q3_tamanho_total_m |-> IF CampoMuda(av, payload, "q3_tamanho_total_m")
                            THEN payload.q3_tamanho_total_m
                            ELSE av.q3_tamanho_total_m]

\* the loaded object after the assignments the handler has made to it
AvaliacaoAlterada(av, payload) ==
    [id |-> av.id,
     cliente_nome |-> IF AlteraClienteNome(av, payload) # <<>>
                      THEN payload.cliente_nome[1] ELSE av.cliente_nome,
     data_avaliacao |-> IF AlteraDataAvaliacao(av, payload) # <<>>
                        THEN Strptime(payload.data_avaliacao[1])[1]
                        ELSE av.data_avaliacao,
     status |-> IF CampoMuda(av, payload, "status")
                THEN payload.status[1] ELSE av.status,
     q3_tamanho_total_m |-> IF CampoMuda(av, payload, "q3_tamanho_total_m")
                            THEN payload.q3_tamanho_total_m
                            ELSE av.q3_tamanho_total_m]

\* json.dumps raises TypeError on a Decimal
EntradaSerializavel(e) ==
    IF e.campo = "q3_tamanho_total_m"
    THEN (e.antes = None \/ e.antes[1].tipo # "Decimal") /\ e.depois.tipo # "Decimal"
    ELSE TRUE

JsonSerializavel(alteracoes) ==
    \A i \in 1..Len(alteracoes) : EntradaSerializavel(alteracoes[i])

\* the status the handler answers with before it writes anything, 0 if none
ErroAtualizar(av, payload) ==
    IF av = None THEN 404
    ELSE IF payload.data_avaliacao # None /\ Strptime(payload.data_avaliacao[1]) = None
    THEN 400
    ELSE IF ~JsonSerializavel(CalcularAlteracoes(av[1], payload)) THEN 500
    ELSE 0

\* SessaoFechada flushing the object the handler had assigned to
SessaoFechada_Grava(tabela, pendente) ==
    IF pendente = None THEN tabela ELSE GravarAvaliacao(tabela, pendente[1])

\* get_db closing the session of a handler that raised, pendente being the
\* ORM object with the assignments made before the raise: nothing was
\* flushed (autoflush=False) or committed, and close() rolls back
SessaoFechada(tabela, pendente) == tabela

\* atualizar_avaliacao up to its first commit
AtualizarAvaliacao(r, avaliacao_id, payload) ==
    /\ Livre(r)
    /\ avaliacoes_auditoria_id_seq < MaxAuditoria
    /\ LET av == ObterAvaliacao(avaliacao_id)
           erro == ErroAtualizar(av, payload)
           nova == [ReqOciosa EXCEPT !.op = "atualizar", !.payload = payload,
                                     !.avaliacao_id = avaliacao_id, !.antes = av,
                                     !.n_auditoria = Len(avaliacoes_auditoria)]
           pendente == IF av = None \/ AlteraClienteNome(av[1], payload) = <<>>
                       THEN av
                       ELSE Some([av[1] EXCEPT
                                      !.cliente_nome = payload.cliente_nome[1]])
       IN IF erro # 0
          THEN /\ req' = [req EXCEPT ![r] =
                     [nova EXCEPT !.pc = "done",
                                  !.resposta = [status |-> erro, corpo |-> None]]]
               /\ avaliacoes' = SessaoFechada(avaliacoes, pendente)
          ELSE LET alteracoes == CalcularAlteracoes(av[1], payload) IN
               /\ avaliacoes' = GravarAvaliacao(avaliacoes,
                                                AvaliacaoAlterada(av[1], payload))
               /\ req' = [req EXCEPT ![r] =
                     [nova EXCEPT !.pc = "atualizar_log",
                                  !.alteracoes = alteracoes,
                                  !.detalhe_log = IF alteracoes = <<>>
                                                  THEN SemAlteracoes
                                                  ELSE JsonAlteracoes(alteracoes)]]
    /\ UNCHANGED <<varsLinhas, avaliacoes_id_seq, avaliacoes_auditoria, avaliacoes_auditoria_id_seq,
                   varsUsuarios>>

\* atualizar_avaliacao up to the point before its first commit, when another
\* request can commit in between: the row is read and the changes are
\* computed against the values read
AtualizarAvaliacaoLer(r, avaliacao_id, payload) ==
    /\ Livre(r)
    /\ avaliacoes_auditoria_id_seq < MaxAuditoria
    /\ LET av == ObterAvaliacao(avaliacao_id)
           erro == ErroAtualizar(av, payload)
           nova == [ReqOciosa EXCEPT !.op = "atualizar", !.payload = payload,
                                     !.avaliacao_id = avaliacao_id, !.antes = av,
                                     !.n_auditoria = Len(avaliacoes_auditoria)]
       IN req' = [req EXCEPT ![r] =
              IF erro # 0
              THEN [nova EXCEPT !.pc = "done",
                                !.resposta = [status |-> erro, corpo |-> None]]
              ELSE LET alteracoes == CalcularAlteracoes(av[1], payload) IN
                   [nova EXCEPT !.pc = "atualizar_lido",
                                !.alteracoes = alteracoes,
                                !.detalhe_log = IF alteracoes = <<>>
                                                THEN SemAlteracoes
                                                ELSE JsonAlteracoes(alteracoes)]]
    /\ UNCHANGED <<varsLinhas, varsAvaliacoes, varsUsuarios>>

\* db.commit(): UPDATE avaliacoes SET the columns the handler assigned
\* WHERE id = ...; the other columns keep what the row holds by now
AtualizarAvaliacaoGravar(r) ==
    /\ req[r].pc = "atualizar_lido"
    /\ LET lida == req[r].antes[1]
           alterada == AvaliacaoAlterada(lida, req[r].payload)
           atual == ObterAvaliacao(req[r].avaliacao_id)[1]
           gravada == [c \in DOMAIN atual |->
                           IF alterada[c] # lida[c] THEN alterada[c] ELSE atual[c]]
       IN avaliacoes' = GravarAvaliacao(avaliacoes, gravada)
    /\ req' = [req EXCEPT ![r].pc = "atualizar_log"]
    /\ UNCHANGED <<varsLinhas, avaliacoes_id_seq, avaliacoes_auditoria, avaliacoes_auditoria_id_seq,
                   varsUsuarios>>

\* atualizar_avaliacao from the EDITAR log to its return
AtualizarAvaliacaoLog(r) ==
    /\ req[r].pc = "atualizar_log"
    /\ avaliacoes_auditoria_id_seq' = avaliacoes_auditoria_id_seq + 1
    /\ avaliacoes_auditoria' = Append(avaliacoes_auditoria,
           AvaliacaoAuditoria(avaliacoes_auditoria_id_seq + 1, req[r].avaliacao_id,
                              "EDITAR", req[r].detalhe_log))
    /\ req' = [req EXCEPT ![r].pc = "done",
                          ![r].resposta = [status |-> 200,
                                           corpo |-> ObterAvaliacao(req[r].avaliacao_id)]]
    /\ UNCHANGED <<varsLinhas, avaliacoes, avaliacoes_id_seq, varsUsuarios>>

\* the second db.commit() of a handler raises: the INSERT of the log row,
\* which has drawn its id from the sequence, is rolled back, and the request
\* ends as a server error
FalhaCommitLog(r) ==
    /\ req[r].pc \in {"criar_log", "atualizar_log"}
    /\ avaliacoes_auditoria_id_seq' = avaliacoes_auditoria_id_seq + 1
    /\ req' = [req EXCEPT ![r].pc = "done",
                          ![r].resposta = [status |-> 500, corpo |-> None]]
    /\ UNCHANGED <<varsLinhas, avaliacoes, avaliacoes_id_seq, avaliacoes_auditoria, varsUsuarios>>

\* get_db after the yield: the response has been sent, the session is closed
FecharSessao(r) ==
    /\ req[r].pc = "done"
    /\ req' = [req EXCEPT ![r] = ReqOciosa]
    /\ UNCHANGED <<varsLinhas, varsAvaliacoes, varsUsuarios>>

\* ------------------------------------------------------------------------
\* POST /auth/login, GET /auth/me
\* ------------------------------------------------------------------------
\* the status a dependency result becomes in the response
StatusDe(atual) == IF atual.status = 0 THEN 200 ELSE atual.status

\* login
Login(r, form_data) ==
    /\ Livre(r)
    /\ Cardinality(tokens) < MaxTokens
    /\ LET usuario == AutenticarUsuario(usuarios, form_data.username, form_data.password)
           nova == [ReqOciosa EXCEPT !.pc = "done", !.op = "login",
                                     !.form_data = form_data, !.usuario = usuario]
       IN IF usuario = None
          THEN /\ req' = [req EXCEPT ![r] =
                     [nova EXCEPT !.resposta = [status |-> 400, corpo |-> None]]]
               /\ UNCHANGED tokens
          ELSE LET access_token ==
                       CriarTokenAcesso([sub |-> Some(usuario[1].username)],
                                        Some(ACCESS_TOKEN_EXPIRE_MINUTES), agora)
               IN /\ tokens' = tokens \cup {access_token}
                  /\ req' = [req EXCEPT ![r] =
                        [nova EXCEPT !.resposta = [status |-> 200,
                                                   corpo |-> Some(access_token)]]]
    /\ UNCHANGED <<varsLinhas, varsAvaliacoes, usuarios, usuarios_id_seq,
                   usuarios_auditoria, agora>>

\* obter_me behind obter_usuario_atual
ObterMe(r, token) ==
    /\ Livre(r)
    /\ LET atual == ObterUsuarioAtual(usuarios, token, agora)
       IN req' = [req EXCEPT ![r] =
              [ReqOciosa EXCEPT !.pc = "done", !.op = "me", !.token = token,
                                !.username = UsernameDoToken(token, agora),
                                !.usuario = atual.usuario,
                                !.resposta = [status |-> StatusDe(atual),
                                              corpo |-> atual.usuario]]]
    /\ UNCHANGED <<varsLinhas, varsAvaliacoes, varsUsuarios>>

\* ------------------------------------------------------------------------
\* POST /usuarios, PATCH /usuarios/{usuario_id}/status
\* ------------------------------------------------------------------------
\* db.query(Usuario).filter(Usuario.id == usuario_id).first()
ObterUsuario(db, usuario_id) ==
    IF \E i \in 1..Len(db) : db[i].id = usuario_id
    THEN Some(db[CHOOSE i \in 1..Len(db) : db[i].id = usuario_id])
    ELSE None

\* GravarUsuario as a DELETE of the row
GravarUsuario_Apaga(db, usuario) == SelectSeq(db, LAMBDA u : u.id # usuario.id)

\* UPDATE usuarios ... WHERE id = usuario.id
GravarUsuario(db, usuario) ==
    [i \in 1..Len(db) |-> IF db[i].id = usuario.id THEN usuario ELSE db[i]]

\* registrar_auditoria_usuario: the row it adds to the session
UsuarioAuditoria(usuario_alvo_id, acao, detalhes, usuario_responsavel) ==
    [usuario_alvo_id |-> usuario_alvo_id,
     usuario_acao_id |-> IF usuario_responsavel = None THEN None
                         ELSE Some(usuario_responsavel[1].id),
     acao |-> acao, detalhes |-> detalhes]

\* ViolaUnicidade of a table without the unique constraints
ViolaUnicidade_SemRestricao(db, username, email) ==
    FALSE

\* the unique constraints of usuarios.username and usuarios.email refuse the row
ViolaUnicidade(db, username, email) ==
    \E i \in 1..Len(db) : db[i].username = username \/ db[i].email = email

\* criar_usuario up to the end of its query for a row of the same username
\* or e-mail
CriarUsuario(r, token, payload) ==
    /\ Livre(r)
    /\ usuarios_id_seq < MaxUsuarios
    /\ Len(usuarios_auditoria) < MaxAuditoriaUsuarios
    /\ LET admin == ObterAdminAtual(usuarios, token, agora)
           nova == [ReqOciosa EXCEPT !.op = "criar_usuario", !.token = token,
                                     !.username = UsernameDoToken(token, agora),
                                     !.payload = payload, !.usuario = admin.usuario,
                                     !.n_auditoria = Len(usuarios_auditoria)]
           existente == \E i \in 1..Len(usuarios) :
                            \/ usuarios[i].username = payload.username
                            \/ usuarios[i].email = payload.email
       IN IF admin.status # 0 \/ existente
          THEN req' = [req EXCEPT ![r] =
                   [nova EXCEPT !.pc = "done",
                                !.resposta = [status |-> IF admin.status # 0
                                                         THEN admin.status ELSE 400,
                                              corpo |-> None]]]
          ELSE req' = [req EXCEPT ![r] = [nova EXCEPT !.pc = "criar_usuario_commit"]]
    /\ UNCHANGED <<varsLinhas, varsAvaliacoes, varsUsuarios>>

\* criar_usuario from Usuario(...) to db.refresh: the INSERT draws the id and
\* then meets the unique constraints, which raise IntegrityError when another
\* session has committed the username or the e-mail since the query
CriarUsuarioCommit(r) ==
    /\ req[r].pc = "criar_usuario_commit"
    /\ usuarios_id_seq' = usuarios_id_seq + 1
    /\ LET payload == req[r].payload
       IN IF ViolaUnicidade(usuarios, payload.username, payload.email)
          THEN /\ req' = [req EXCEPT ![r].pc = "done",
                                     ![r].resposta = [status |-> 500, corpo |-> None]]
               /\ UNCHANGED usuarios
          ELSE \E sal \in Sais :
               /\ usuarios' = Append(usuarios,
                      NovoUsuario(usuarios_id_seq + 1, payload.email, payload.username,
                                  GerarHashSenha(payload.senha, sal), payload.is_admin))
               /\ req' = [req EXCEPT ![r].pc = "criar_usuario_log",
                                     ![r].usuario_id = usuarios_id_seq + 1,
                                     ![r].acao = "CRIAR_USUARIO",
                                     ![r].detalhe_log =
                                         [acao |-> "CRIAR_USUARIO",
                                          email |-> payload.email,
                                          username |-> payload.username]]
    /\ UNCHANGED <<varsLinhas, varsAvaliacoes, usuarios_auditoria, tokens, agora>>

\* ErroStatusUsuario without the refusal of the administrator's own account
ErroStatusUsuario_SemProprio(admin, usuario, ativo) ==
    IF admin.status # 0 THEN admin.status
    ELSE IF usuario = None THEN 404
    ELSE 0

\* atualizar_status_usuario: the HTTPException it raises, 0 when it raises none
ErroStatusUsuario(admin, usuario, ativo) ==
    IF admin.status # 0 THEN admin.status
    ELSE IF usuario = None THEN 404
    ELSE IF usuario[1].id = admin.usuario[1].id /\ ~ativo THEN 400
    ELSE 0

\* AcaoStatus with the two codes exchanged
AcaoStatus_Trocada(usuario) ==
    IF usuario.ativo THEN "DESATIVAR_USUARIO" ELSE "ATIVAR_USUARIO"

\* atualizar_status_usuario: the event code, chosen after the refresh
AcaoStatus(usuario) ==
    IF usuario.ativo THEN "ATIVAR_USUARIO" ELSE "DESATIVAR_USUARIO"

\* atualizar_status_usuario up to its first commit and refresh
AtualizarStatusUsuario(r, token, usuario_id, ativo) ==
    /\ Livre(r)
    /\ Len(usuarios_auditoria) < MaxAuditoriaUsuarios
    /\ LET admin == ObterAdminAtual(usuarios, token, agora)
           usuario == ObterUsuario(usuarios, usuario_id)
           nova == [ReqOciosa EXCEPT !.op = "status_usuario", !.token = token,
                                     !.username = UsernameDoToken(token, agora),
                                     !.payload = [ativo |-> ativo],
                                     !.usuario = admin.usuario,
                                     !.usuario_id = usuario_id, !.antes = usuario,
                                     !.n_auditoria = Len(usuarios_auditoria)]
           erro == ErroStatusUsuario(admin, usuario, ativo)
       IN IF erro # 0
          THEN /\ req' = [req EXCEPT ![r] =
                     [nova EXCEPT !.pc = "done",
                                  !.resposta = [status |-> erro, corpo |-> None]]]
               /\ UNCHANGED usuarios
          ELSE LET gravado == [usuario[1] EXCEPT !.ativo = ativo]
                   acao == AcaoStatus(gravado) IN
               /\ usuarios' = GravarUsuario(usuarios, gravado)
               /\ req' = [req EXCEPT ![r] =
                     [nova EXCEPT !.pc = "status_usuario_log", !.acao = acao,
                                  !.detalhe_log =
                                      [acao |-> acao,
                                       usuario_alvo |-> usuario[1].username]]]
    /\ UNCHANGED <<varsLinhas, varsAvaliacoes, usuarios_id_seq, usuarios_auditoria, tokens, agora>>

\* gerar_senha_temporaria: the texts secrets.choice may draw. Ten characters
\* out of sixty-two: the draw is taken never to repeat a password that an
\* account holds
SenhasTemporarias == {"tMp0rar1aA", "tMp0rar1aB"}

GerarSenhaTemporaria(db) ==
    {s \in SenhasTemporarias :
         \A i \in 1..Len(db) : db[i].senha_hash.resumo.senha # s}

\* UsuarioResetado without the flag that forces the change of password
UsuarioResetado_SemTroca(usuario, senha_hash) ==
    [usuario EXCEPT !.senha_hash = senha_hash, !.ativo = TRUE]

\* UsuarioResetado without the reactivation of the account
UsuarioResetado_SemAtivar(usuario, senha_hash) ==
    [usuario EXCEPT !.senha_hash = senha_hash,
                    !.precisa_trocar_senha = TRUE]

\* resetar_senha_usuario: the row it writes
UsuarioResetado(usuario, senha_hash) ==
    [usuario EXCEPT !.senha_hash = senha_hash,
                    !.precisa_trocar_senha = TRUE,
                    !.ativo = TRUE]

\* atualizar_status_usuario served by a process that another request can
\* interleave with: the dependency obter_admin_atual, which reads the caller
\* with the token
StatusUsuarioAutenticar(r, token, usuario_id, ativo) ==
    /\ Livre(r)
    /\ Len(usuarios_auditoria) < MaxAuditoriaUsuarios
    /\ LET admin == ObterAdminAtual(usuarios, token, agora)
           nova == [ReqOciosa EXCEPT !.op = "status_usuario", !.token = token,
                                     !.username = UsernameDoToken(token, agora),
                                     !.payload = [ativo |-> ativo],
                                     !.usuario = admin.usuario,
                                     !.usuario_id = usuario_id,
                                     !.n_auditoria = Len(usuarios_auditoria)]
       IN req' = [req EXCEPT ![r] =
              IF admin.status # 0
              THEN [nova EXCEPT !.pc = "done",
                                !.resposta = [status |-> admin.status, corpo |-> None]]
              ELSE [nova EXCEPT !.pc = "status_usuario_autenticado"]]
    /\ UNCHANGED <<varsLinhas, varsAvaliacoes, varsUsuarios>>

\* the body of atualizar_status_usuario up to its first commit, with the
\* admin object the dependency has loaded
StatusUsuarioGravar(r) ==
    /\ req[r].pc = "status_usuario_autenticado"
    /\ LET admin == [status |-> 0, usuario |-> req[r].usuario]
           usuario == ObterUsuario(usuarios, req[r].usuario_id)
           erro == ErroStatusUsuario(admin, usuario, req[r].payload.ativo)
       IN IF erro # 0
          THEN /\ req' = [req EXCEPT ![r].pc = "done", ![r].antes = usuario,
                                     ![r].resposta = [status |-> erro, corpo |-> None]]
               /\ UNCHANGED usuarios
          ELSE LET gravado == [usuario[1] EXCEPT !.ativo = req[r].payload.ativo]
                   acao == AcaoStatus(gravado) IN
               /\ usuarios' = GravarUsuario(usuarios, gravado)
               /\ req' = [req EXCEPT ![r].pc = "status_usuario_log",
                                     ![r].antes = usuario, ![r].acao = acao,
                                     ![r].detalhe_log =
                                         [acao |-> acao,
                                          usuario_alvo |-> usuario[1].username]]
    /\ UNCHANGED <<varsLinhas, varsAvaliacoes, usuarios_id_seq, usuarios_auditoria, tokens, agora>>

\* resetar_senha_usuario up to its first commit
ResetarSenhaUsuario(r, token, usuario_id) ==
    /\ Livre(r)
    /\ Len(usuarios_auditoria) < MaxAuditoriaUsuarios
    /\ LET admin == ObterAdminAtual(usuarios, token, agora)
           usuario == ObterUsuario(usuarios, usuario_id)
           nova == [ReqOciosa EXCEPT !.op = "resetar_senha", !.token = token,
                                     !.username = UsernameDoToken(token, agora),
                                     !.usuario = admin.usuario,
                                     !.usuario_id = usuario_id, !.antes = usuario,
                                     !.n_auditoria = Len(usuarios_auditoria)]
           erro == IF admin.status # 0 THEN admin.status
                   ELSE IF usuario = None THEN 404
                   ELSE 0
       IN IF erro # 0
          THEN /\ req' = [req EXCEPT ![r] =
                     [nova EXCEPT !.pc = "done",
                                  !.resposta = [status |-> erro, corpo |-> None]]]
               /\ UNCHANGED usuarios
          ELSE \E senha_temporaria \in GerarSenhaTemporaria(usuarios), sal \in Sais :
               /\ usuarios' = GravarUsuario(usuarios,
                      UsuarioResetado(usuario[1],
                                      GerarHashSenha(senha_temporaria, sal)))
               /\ req' = [req EXCEPT ![r] =
                     [nova EXCEPT !.pc = "resetar_senha_log", !.acao = "RESET_SENHA",
                                  !.payload = [senha_temporaria |-> senha_temporaria],
                                  !.detalhe_log =
                                      [acao |-> "RESET_SENHA",
                                       usuario_alvo |-> usuario[1].username]]]
    /\ UNCHANGED <<varsLinhas, varsAvaliacoes, usuarios_id_seq, usuarios_auditoria, tokens, agora>>

\* TrocarSenhaSchema
PayloadsTrocarSenha == [senha_atual : Senhas, nova_senha : {"s3nha"}]

\* UsuarioComNovaSenha leaving the flag that forces the change of password
UsuarioComNovaSenha_ComTroca(usuario, senha_hash) ==
    [usuario EXCEPT !.senha_hash = senha_hash]

\* trocar_senha: the row it writes
UsuarioComNovaSenha(usuario, senha_hash) ==
    [usuario EXCEPT !.senha_hash = senha_hash, !.precisa_trocar_senha = FALSE]

\* trocar_senha, behind obter_usuario_atual, up to its first commit
TrocarSenha(r, token, payload) ==
    /\ Livre(r)
    /\ Len(usuarios_auditoria) < MaxAuditoriaUsuarios
    /\ LET atual == ObterUsuarioAtual(usuarios, token, agora)
           nova == [ReqOciosa EXCEPT !.op = "trocar_senha", !.token = token,
                                     !.username = UsernameDoToken(token, agora),
                                     !.payload = payload, !.usuario = atual.usuario,
                                     !.antes = atual.usuario,
                                     !.n_auditoria = Len(usuarios_auditoria)]
           erro == IF atual.status # 0 THEN atual.status
                   ELSE IF ~VerificarSenha(payload.senha_atual,
                                           atual.usuario[1].senha_hash) THEN 400
                   ELSE 0
       IN IF erro # 0
          THEN /\ req' = [req EXCEPT ![r] =
                     [nova EXCEPT !.pc = "done",
                                  !.resposta = [status |-> erro, corpo |-> None]]]
               /\ UNCHANGED usuarios
          ELSE \E sal \in Sais :
               /\ usuarios' = GravarUsuario(usuarios,
                      UsuarioComNovaSenha(atual.usuario[1],
                                          GerarHashSenha(payload.nova_senha, sal)))
               /\ req' = [req EXCEPT ![r] =
                     [nova EXCEPT !.pc = "trocar_senha_log", !.acao = "TROCAR_SENHA",
                                  !.usuario_id = atual.usuario[1].id,
                                  !.detalhe_log =
                                      [acao |-> "TROCAR_SENHA",
                                       usuario |-> atual.usuario[1].username]]]
    /\ UNCHANGED <<varsLinhas, varsAvaliacoes, usuarios_id_seq, usuarios_auditoria, tokens, agora>>

\* what the handler returns after its audit row is committed
CorpoDaResposta(r) ==
    IF req[r].op = "resetar_senha"
    THEN Some([detail |-> "Senha temporaria gerada com sucesso.",
               senha_temporaria |-> req[r].payload.senha_temporaria])
    ELSE IF req[r].op = "trocar_senha"
    THEN Some([detail |-> "Senha alterada com sucesso."])
    ELSE ObterUsuario(usuarios, req[r].usuario_id)

\* RegistrarAuditoriaUsuario overwriting the trail with the new event
RegistrarAuditoriaUsuario_Substitui(r) ==
    /\ req[r].pc \in {"criar_usuario_log", "status_usuario_log",
                      "resetar_senha_log", "trocar_senha_log"}
    /\ usuarios_auditoria' =
           <<UsuarioAuditoria(req[r].usuario_id, req[r].acao, req[r].detalhe_log,
                              req[r].usuario)>>
    /\ req' = [req EXCEPT ![r].pc = "done",
                          ![r].resposta = [status |-> 200, corpo |-> CorpoDaResposta(r)]]
    /\ UNCHANGED <<varsLinhas, varsAvaliacoes, usuarios, usuarios_id_seq, tokens, agora>>

\* criar_usuario, atualizar_status_usuario, resetar_senha_usuario and
\* trocar_senha from registrar_auditoria_usuario to their return
RegistrarAuditoriaUsuario(r) ==
    /\ req[r].pc \in {"criar_usuario_log", "status_usuario_log",
                      "resetar_senha_log", "trocar_senha_log"}
    /\ usuarios_auditoria' = Append(usuarios_auditoria,
           UsuarioAuditoria(req[r].usuario_id, req[r].acao, req[r].detalhe_log,
                            req[r].usuario))
    /\ req' = [req EXCEPT ![r].pc = "done",
                          ![r].resposta = [status |-> 200, corpo |-> CorpoDaResposta(r)]]
    /\ UNCHANGED <<varsLinhas, varsAvaliacoes, usuarios, usuarios_id_seq, tokens, agora>>

\* listar_usuarios
ListarUsuarios(r, token) ==
    /\ Livre(r)
    /\ LET admin == ObterAdminAtual(usuarios, token, agora)
       IN req' = [req EXCEPT ![r] =
              [ReqOciosa EXCEPT !.pc = "done", !.op = "listar_usuarios",
                                !.token = token,
                                !.username = UsernameDoToken(token, agora),
                                !.usuario = admin.usuario,
                                !.resposta = [status |-> StatusDe(admin),
                                              corpo |-> IF admin.status = 0
                                                        THEN Some(usuarios)
                                                        ELSE None]]]
    /\ UNCHANGED <<varsLinhas, varsAvaliacoes, varsUsuarios>>

\* the rows of usuarios_auditoria whose target is usuario_id, oldest first
LogsDoUsuario(usuario_id) ==
    SelectSeq(usuarios_auditoria, LAMBDA log : log.usuario_alvo_id = usuario_id)

\* listar_auditoria_usuario
ListarAuditoriaUsuario(r, token, usuario_id) ==
    /\ Livre(r)
    /\ LET admin == ObterAdminAtual(usuarios, token, agora)
           logs == LogsDoUsuario(usuario_id)
           erro == IF admin.status # 0 THEN admin.status
                   ELSE IF logs = <<>> /\ ObterUsuario(usuarios, usuario_id) = None
                        THEN 404
                   ELSE 0
       IN req' = [req EXCEPT ![r] =
              [ReqOciosa EXCEPT !.pc = "done", !.op = "listar_auditoria_usuario",
                                !.token = token,
                                !.username = UsernameDoToken(token, agora),
                                !.usuario = admin.usuario,
                                !.usuario_id = usuario_id,
                                !.resposta = [status |-> IF erro # 0 THEN erro ELSE 200,
                                              corpo |-> IF erro # 0 THEN None
                                                        ELSE Some(logs)]]]
    /\ UNCHANGED <<varsLinhas, varsAvaliacoes, varsUsuarios>>

\* the commit of the account audit row fails (the connection is lost, the
\* server restarts): the handler catches nothing, the request ends with 500
\* and the write of the first commit stays
FalhaCommitLogUsuario(r) ==
    /\ req[r].pc \in {"criar_usuario_log", "status_usuario_log",
                      "resetar_senha_log", "trocar_senha_log"}
    /\ req' = [req EXCEPT ![r].pc = "done",
                          ![r].resposta = [status |-> 500, corpo |-> None]]
    /\ UNCHANGED <<varsLinhas, varsAvaliacoes, varsUsuarios>>

\* ------------------------------------------------------------------------
\* The start of the application
\* ------------------------------------------------------------------------
\* criar_admin_se_nao_existir up to the end of its query
Bootstrap(r) ==
    /\ Livre(r)
    /\ LET admin == \E i \in 1..Len(usuarios) : usuarios[i].username = "admin"
       IN req' = [req EXCEPT ![r] =
              [ReqOciosa EXCEPT !.op = "bootstrap",
                                !.pc = IF admin THEN "done" ELSE "bootstrap_commit"]]
    /\ UNCHANGED <<varsLinhas, varsAvaliacoes, varsUsuarios>>

\* criar_admin_se_nao_existir from Usuario(...) to db.commit(): the unique
\* constraints meet the row as they meet the row of criar_usuario, and the
\* IntegrityError ends the start of the application
BootstrapCommit(r) ==
    /\ req[r].pc = "bootstrap_commit"
    /\ usuarios_id_seq' = usuarios_id_seq + 1
    /\ IF ViolaUnicidade(usuarios, "admin", EmailAdmin)
       THEN /\ req' = [req EXCEPT ![r].pc = "done",
                                  ![r].resposta = [status |-> 500, corpo |-> None]]
            /\ UNCHANGED usuarios
       ELSE \E sal \in Sais :
            /\ usuarios' = CriarAdminSeNaoExistir(usuarios, usuarios_id_seq + 1, sal)
            /\ req' = [req EXCEPT ![r].pc = "done", ![r].usuario_id = usuarios_id_seq + 1]
    /\ UNCHANGED <<varsLinhas, varsAvaliacoes, usuarios_auditoria, tokens, agora>>

\* ------------------------------------------------------------------------
\* POST /avaliacoes/{avaliacao_id}/equipamentos and /outros_recursos
\* ------------------------------------------------------------------------
\* a Python int that is not negative, alto * 2^16 + baixo
Inteiro(alto, baixo) == [alto |-> alto, baixo |-> baixo]

\* the value a column of type Integer takes: below 2^31 the number itself,
\* None when the server refuses it as out of range
ParaInteger(n) == IF n.alto < 32768 THEN Some(n) ELSE None

\* EquipamentoBaseSchema: quantidade is an int with ge=1 and no upper limit
PayloadsEquipamento ==
    [equipamento : {"switch"}, modelo : Opcional({"SG350"}),
     quantidade : {Inteiro(0, 1), Inteiro(32768, 0)}, fabricante : {None}]

\* OutroRecursoBaseSchema
PayloadsOutroRecurso ==
    [descricao : {"almoco"}, quantidade : {Inteiro(0, 2), Inteiro(32768, 0)}]

\* json.dumps of the dictionary obj
JsonObjeto(obj) == [formato |-> "json", objeto |-> obj]

\* AvaliacaoEquipamento(...) as the INSERT stores it
NovoEquipamento(id, avaliacao_id, payload) ==
    [id |-> id, avaliacao_id |-> avaliacao_id, equipamento |-> payload.equipamento,
     modelo |-> payload.modelo, quantidade |-> ParaInteger(payload.quantidade)[1],
     fabricante |-> payload.fabricante]

\* adicionar_equipamento: detalhes_log
DetalhesEquipamento(payload) ==
    JsonObjeto([acao |-> "adicionar_equipamento", equipamento |-> payload.equipamento,
                modelo |-> payload.modelo, quantidade |-> payload.quantidade,
                fabricante |-> payload.fabricante])

\* adicionar_equipamento up to its first commit and refresh.  Whether the
\* sequence has moved when the server refuses the quantity depends on where
\* it evaluates the cast
AdicionarEquipamento(r, avaliacao_id, payload) ==
    /\ Livre(r)
    /\ avaliacoes_equipamentos_id_seq < MaxLinhas
    /\ avaliacoes_auditoria_id_seq < MaxAuditoriaLinhas
    /\ LET nova == [ReqOciosa EXCEPT !.op = "adicionar_equipamento",
                                     !.avaliacao_id = avaliacao_id,
                                     !.payload = payload,
                                     !.antes = ObterAvaliacao(avaliacao_id),
                                     !.n_auditoria = Len(avaliacoes_auditoria)]
           id == avaliacoes_equipamentos_id_seq + 1
       IN IF ObterAvaliacao(avaliacao_id) = None
          THEN /\ req' = [req EXCEPT ![r] =
                     [nova EXCEPT !.pc = "done",
                                  !.resposta = [status |-> 404, corpo |-> None]]]
               /\ UNCHANGED <<avaliacoes_equipamentos, avaliacoes_equipamentos_id_seq>>
          ELSE IF ParaInteger(payload.quantidade) = None
          THEN /\ req' = [req EXCEPT ![r] =
                     [nova EXCEPT !.pc = "done",
                                  !.resposta = [status |-> 500, corpo |-> None]]]
               /\ avaliacoes_equipamentos_id_seq' \in {id - 1, id}
               /\ UNCHANGED avaliacoes_equipamentos
          ELSE LET equipamento == NovoEquipamento(id, avaliacao_id, payload) IN
               /\ avaliacoes_equipamentos_id_seq' = id
               /\ avaliacoes_equipamentos' = Append(avaliacoes_equipamentos, equipamento)
               /\ req' = [req EXCEPT ![r] =
                     [nova EXCEPT !.pc = "adicionar_linha_log",
                                  !.acao = "ADD_EQUIPAMENTO",
                                  !.linha = Some(equipamento),
                                  !.detalhe_log = DetalhesEquipamento(payload)]]
    /\ UNCHANGED <<varsAvaliacoes, varsUsuarios, avaliacoes_outros_recursos,
                   avaliacoes_outros_recursos_id_seq>>

\* AvaliacaoOutroRecurso(...) as the INSERT stores it
NovoOutroRecurso(id, avaliacao_id, payload) ==
    [id |-> id, avaliacao_id |-> avaliacao_id, descricao |-> payload.descricao,
     quantidade |-> ParaInteger(payload.quantidade)[1]]

\* adicionar_outro_recurso: detalhes_log
DetalhesOutroRecurso(payload) ==
    JsonObjeto([acao |-> "adicionar_outro_recurso", descricao |-> payload.descricao,
                quantidade |-> payload.quantidade])

\* adicionar_outro_recurso up to its first commit and refresh
AdicionarOutroRecurso(r, avaliacao_id, payload) ==
    /\ Livre(r)
    /\ avaliacoes_outros_recursos_id_seq < MaxLinhas
    /\ avaliacoes_auditoria_id_seq < MaxAuditoriaLinhas
    /\ LET nova == [ReqOciosa EXCEPT !.op = "adicionar_outro_recurso",
                                     !.avaliacao_id = avaliacao_id,
                                     !.payload = payload,
                                     !.antes = ObterAvaliacao(avaliacao_id),
                                     !.n_auditoria = Len(avaliacoes_auditoria)]
           id == avaliacoes_outros_recursos_id_seq + 1
       IN IF ObterAvaliacao(avaliacao_id) = None
          THEN /\ req' = [req EXCEPT ![r] =
                     [nova EXCEPT !.pc = "done",
                                  !.resposta = [status |-> 404, corpo |-> None]]]
               /\ UNCHANGED <<avaliacoes_outros_recursos,
                              avaliacoes_outros_recursos_id_seq>>
          ELSE IF ParaInteger(payload.quantidade) = None
          THEN /\ req' = [req EXCEPT ![r] =
                     [nova EXCEPT !.pc = "done",
                                  !.resposta = [status |-> 500, corpo |-> None]]]
               /\ avaliacoes_outros_recursos_id_seq' \in {id - 1, id}
               /\ UNCHANGED avaliacoes_outros_recursos
          ELSE LET recurso == NovoOutroRecurso(id, avaliacao_id, payload) IN
               /\ avaliacoes_outros_recursos_id_seq' = id
               /\ avaliacoes_outros_recursos' = Append(avaliacoes_outros_recursos, recurso)
               /\ req' = [req EXCEPT ![r] =
                     [nova EXCEPT !.pc = "adicionar_linha_log",
                                  !.acao = "ADD_OUTRO_RECURSO",
                                  !.linha = Some(recurso),
                                  !.detalhe_log = DetalhesOutroRecurso(payload)]]
    /\ UNCHANGED <<varsAvaliacoes, varsUsuarios, avaliacoes_equipamentos,
                   avaliacoes_equipamentos_id_seq>>

\* adicionar_equipamento and adicionar_outro_recurso from their log to their
\* return
AdicionarLinhaLog(r) ==
    /\ req[r].pc = "adicionar_linha_log"
    /\ avaliacoes_auditoria_id_seq' = avaliacoes_auditoria_id_seq + 1
    /\ avaliacoes_auditoria' = Append(avaliacoes_auditoria,
           AvaliacaoAuditoria(avaliacoes_auditoria_id_seq + 1, req[r].avaliacao_id,
                              req[r].acao, req[r].detalhe_log))
    /\ req' = [req EXCEPT ![r].pc = "done",
                          ![r].resposta = [status |-> 200, corpo |-> req[r].linha]]
    /\ UNCHANGED <<varsLinhas, avaliacoes, avaliacoes_id_seq, varsUsuarios>>

\* ------------------------------------------------------------------------
\* DELETE /equipamentos/{equipamento_id}, DELETE /outros_recursos/{recurso_id}
\* ------------------------------------------------------------------------
\* db.query(...).filter(id == linha_id).first() on a table of lines
ObterLinha(tabela, linha_id) ==
    IF \E i \in 1..Len(tabela) : tabela[i].id = linha_id
    THEN Some(tabela[CHOOSE i \in 1..Len(tabela) : tabela[i].id = linha_id])
    ELSE None

\* SemLinha taking every line of the table away
SemLinha_Nenhuma(tabela, linha_id) == <<>>

\* db.delete(linha): DELETE ... WHERE id = linha_id
SemLinha(tabela, linha_id) == SelectSeq(tabela, LAMBDA l : l.id # linha_id)

\* remover_equipamento up to its first commit
RemoverEquipamento(r, equipamento_id) ==
    /\ Livre(r)
    /\ avaliacoes_auditoria_id_seq < MaxAuditoriaLinhas
    /\ LET equipamento == ObterLinha(avaliacoes_equipamentos, equipamento_id)
           nova == [ReqOciosa EXCEPT !.op = "remover_equipamento",
                                     !.usuario_id = equipamento_id,
                                     !.linha = equipamento,
                                     !.n_auditoria = Len(avaliacoes_auditoria)]
       IN IF equipamento = None
          THEN /\ req' = [req EXCEPT ![r] =
                     [nova EXCEPT !.pc = "done",
                                  !.resposta = [status |-> 404, corpo |-> None]]]
               /\ UNCHANGED avaliacoes_equipamentos
          ELSE /\ avaliacoes_equipamentos' =
                      SemLinha(avaliacoes_equipamentos, equipamento_id)
               /\ req' = [req EXCEPT ![r] =
                     [nova EXCEPT !.pc = "remover_linha_log",
                                  !.avaliacao_id = equipamento[1].avaliacao_id,
                                  !.acao = "REMOVER_EQUIPAMENTO",
                                  !.detalhe_log = JsonObjeto(
                                      [acao |-> "remover_equipamento",
                                       equipamento |-> equipamento[1].equipamento,
                                       modelo |-> equipamento[1].modelo,
                                       quantidade |-> equipamento[1].quantidade,
                                       fabricante |-> equipamento[1].fabricante])]]
    /\ UNCHANGED <<varsAvaliacoes, varsUsuarios, avaliacoes_equipamentos_id_seq,
                   avaliacoes_outros_recursos, avaliacoes_outros_recursos_id_seq>>

\* remover_outro_recurso up to its first commit
RemoverOutroRecurso(r, recurso_id) ==
    /\ Livre(r)
    /\ avaliacoes_auditoria_id_seq < MaxAuditoriaLinhas
    /\ LET recurso == ObterLinha(avaliacoes_outros_recursos, recurso_id)
           nova == [ReqOciosa EXCEPT !.op = "remover_outro_recurso",
                                     !.usuario_id = recurso_id,
                                     !.linha = recurso,
                                     !.n_auditoria = Len(avaliacoes_auditoria)]
       IN IF recurso = None
          THEN /\ req' = [req EXCEPT ![r] =
                     [nova EXCEPT !.pc = "done",
                                  !.resposta = [status |-> 404, corpo |-> None]]]
               /\ UNCHANGED avaliacoes_outros_recursos
          ELSE /\ avaliacoes_outros_recursos' =
                      SemLinha(avaliacoes_outros_recursos, recurso_id)
               /\ req' = [req EXCEPT ![r] =
                     [nova EXCEPT !.pc = "remover_linha_log",
                                  !.avaliacao_id = recurso[1].avaliacao_id,
                                  !.acao = "REMOVER_OUTRO_RECURSO",
                                  !.detalhe_log = JsonObjeto(
                                      [acao |-> "remover_outro_recurso",
                                       descricao |-> recurso[1].descricao,
                                       quantidade |-> recurso[1].quantidade])]]
    /\ UNCHANGED <<varsAvaliacoes, varsUsuarios, avaliacoes_outros_recursos_id_seq,
                   avaliacoes_equipamentos, avaliacoes_equipamentos_id_seq>>

\* remover_equipamento and remover_outro_recurso from their log to their
\* return
RemoverLinhaLog(r) ==
    /\ req[r].pc = "remover_linha_log"
    /\ avaliacoes_auditoria_id_seq' = avaliacoes_auditoria_id_seq + 1
    /\ avaliacoes_auditoria' = Append(avaliacoes_auditoria,
           AvaliacaoAuditoria(avaliacoes_auditoria_id_seq + 1, req[r].avaliacao_id,
                              req[r].acao, req[r].detalhe_log))
    /\ req' = [req EXCEPT ![r].pc = "done",
                          ![r].resposta = [status |-> 200,
                                           corpo |-> Some("removido com sucesso")]]
    /\ UNCHANGED <<varsLinhas, avaliacoes, avaliacoes_id_seq, varsUsuarios>>

\* ------------------------------------------------------------------------
\* GET /avaliacoes/{avaliacao_id}/auditoria
\* ------------------------------------------------------------------------
\* LogsDaAvaliacao without the filter on avaliacao_id
LogsDaAvaliacao_Todas(avaliacao_id) == avaliacoes_auditoria

\* SELECT ... WHERE avaliacao_id = ... ORDER BY data_hora ASC. data_hora is
\* the server's now() of the transaction that inserts the row, and the table
\* is kept in the order of those transactions.
LogsDaAvaliacao(avaliacao_id) ==
    SelectSeq(avaliacoes_auditoria, LAMBDA log : log.avaliacao_id = avaliacao_id)

\* listar_auditoria
ListarAuditoria(r, avaliacao_id) ==
    /\ Livre(r)
    /\ LET logs == LogsDaAvaliacao(avaliacao_id)
           erro == logs = <<>> /\ ObterAvaliacao(avaliacao_id) = None
       IN req' = [req EXCEPT ![r] =
              [ReqOciosa EXCEPT !.pc = "done", !.op = "listar_auditoria",
                                !.avaliacao_id = avaliacao_id,
                                !.resposta = [status |-> IF erro THEN 404 ELSE 200,
                                              corpo |-> IF erro THEN None
                                                        ELSE Some(logs)]]]
    /\ UNCHANGED <<varsLinhas, varsAvaliacoes, varsUsuarios>>

\* ------------------------------------------------------------------------
\* GET /avaliacoes
\* ------------------------------------------------------------------------
\* listar_avaliacoes: SELECT ... FROM avaliacoes LIMIT limit OFFSET skip, with
\* no ORDER BY, so the server returns the rows in an order of its choosing
\* (PostgreSQL: the order of the heap, where an UPDATE writes a new version of
\* the row); skip and limit are ints without a lower limit, and PostgreSQL
\* refuses a negative OFFSET or LIMIT when the query runs.
ListarAvaliacoes(r, skip, limit) ==
    /\ Livre(r)
    /\ LET offset == IF skip = None THEN 0 ELSE skip[1]
           maximo == IF limit = None THEN 100 ELSE limit[1]
           nova == [ReqOciosa EXCEPT !.pc = "done", !.op = "listar_avaliacoes",
                                     !.payload = [skip |-> offset, limit |-> maximo]]
       IN IF offset < 0 \/ maximo < 0
          THEN req' = [req EXCEPT ![r] =
                   [nova EXCEPT !.resposta = [status |-> 500, corpo |-> None]]]
          ELSE \E ordem \in Permutations(1..Len(avaliacoes)) :
                   LET linhas == [i \in 1..Len(avaliacoes) |-> avaliacoes[ordem[i]]]
                       fim == IF offset + maximo < Len(linhas) THEN offset + maximo
                              ELSE Len(linhas)
                   IN req' = [req EXCEPT ![r] =
                          [nova EXCEPT !.resposta =
                               [status |-> 200,
                                corpo |-> Some(SubSeq(linhas, offset + 1, fim))]]]
    /\ UNCHANGED <<varsLinhas, varsAvaliacoes, varsUsuarios>>

\* the clock: datetime.utcnow() moves on between two steps
PassosTempo ==
    {ACCESS_TOKEN_EXPIRE_MINUTES \div 2, ACCESS_TOKEN_EXPIRE_MINUTES \div 2 + 1}

Tick(passo) ==
    /\ agora + passo <= MaxAgora
    /\ agora' = agora + passo
    /\ UNCHANGED <<varsLinhas, varsAvaliacoes, usuarios, usuarios_id_seq, usuarios_auditoria,
                   tokens, req>>

IdsPedidos == 1..MaxAvaliacoes

Next ==
    \E r \in Reqs :
        \/ \E payload \in PayloadsCriar : CriarAvaliacao(r, payload)
        \/ CriarAvaliacaoLog(r)
        \/ \E id \in IdsPedidos, payload \in PayloadsAtualizar :
               AtualizarAvaliacao(r, id, payload)
        \/ AtualizarAvaliacaoLog(r)
        \/ FecharSessao(r)

Spec == Init /\ [][Next]_vars

NextFalha == Next \/ \E r \in Reqs : FalhaCommitLog(r)

SpecFalha == Init /\ [][NextFalha]_vars

NextAuth ==
    \/ \E r \in Reqs :
           \/ \E form_data \in Formularios : Login(r, form_data)
           \/ \E token \in TokensApresentados(tokens) : ObterMe(r, token)
           \/ \E token \in TokensApresentados(tokens), payload \in PayloadsUsuario :
                  CriarUsuario(r, token, payload)
           \/ CriarUsuarioCommit(r)
           \/ \E token \in TokensApresentados(tokens), usuario_id \in 1..MaxUsuarios,
                 ativo \in BOOLEAN :
                  AtualizarStatusUsuario(r, token, usuario_id, ativo)
           \/ RegistrarAuditoriaUsuario(r)
           \/ FecharSessao(r)
    \/ \E passo \in PassosTempo : Tick(passo)

SpecAuth == Init /\ [][NextAuth]_vars

\* the lines of an assessment, one request at a time
NextLinhas ==
    \E r \in Reqs :
        \/ \E payload \in PayloadsCriar : CriarAvaliacao(r, payload)
        \/ CriarAvaliacaoLog(r)
        \/ \E id \in IdsPedidos, payload \in PayloadsEquipamento :
               AdicionarEquipamento(r, id, payload)
        \/ \E id \in IdsPedidos, payload \in PayloadsOutroRecurso :
               AdicionarOutroRecurso(r, id, payload)
        \/ AdicionarLinhaLog(r)
        \/ \E id \in 1..MaxLinhas : RemoverEquipamento(r, id)
        \/ \E id \in 1..MaxLinhas : RemoverOutroRecurso(r, id)
        \/ RemoverLinhaLog(r)
        \/ FecharSessao(r)

SpecLinhas == Init /\ [][NextLinhas]_vars

\* the database after create_all, before criar_admin_se_nao_existir, with the
\* request slots rs
BancoNovo(rs) ==
    /\ avaliacoes = <<>>
    /\ avaliacoes_id_seq = 0
    /\ avaliacoes_auditoria = <<>>
    /\ avaliacoes_auditoria_id_seq = 0
    /\ usuarios = <<>>
    /\ usuarios_id_seq = 0
    /\ usuarios_auditoria = <<>>
    /\ tokens = {}
    /\ agora = 0
    /\ avaliacoes_equipamentos = <<>>
    /\ avaliacoes_equipamentos_id_seq = 0
    /\ avaliacoes_outros_recursos = <<>>
    /\ avaliacoes_outros_recursos_id_seq = 0
    /\ req = [r \in rs |-> ReqOciosa]

\* OAuth2PasswordRequestForm, with the passwords a reset hands out
FormulariosAdmin ==
    [username : {"admin", "ana"}, password : Senhas \cup SenhasTemporarias]

\* the tokens login has handed out, as the Authorization header carries them
TokensEmitidos == {Some(t) : t \in tokens}

\* the account administration, one request at a time, from the start of the
\* application on
InitAdmin == BancoNovo(Reqs)

NextAdmin ==
    \E r \in Reqs :
        \/ Bootstrap(r)
        \/ BootstrapCommit(r)
        \/ \E form_data \in FormulariosAdmin : Login(r, form_data)
        \/ \E token \in TokensEmitidos, payload \in PayloadsUsuario :
               CriarUsuario(r, token, payload)
        \/ CriarUsuarioCommit(r)
        \/ \E token \in TokensEmitidos, usuario_id \in 1..MaxUsuarios + 1,
              ativo \in BOOLEAN :
               AtualizarStatusUsuario(r, token, usuario_id, ativo)
        \/ \E token \in TokensEmitidos, usuario_id \in 1..MaxUsuarios + 1 :
               ResetarSenhaUsuario(r, token, usuario_id)
        \/ \E token \in TokensEmitidos, payload \in PayloadsTrocarSenha :
               TrocarSenha(r, token, payload)
        \/ RegistrarAuditoriaUsuario(r)
        \/ \E token \in TokensEmitidos : ListarUsuarios(r, token)
        \/ \E token \in TokensEmitidos, usuario_id \in 1..MaxUsuarios + 1 :
               ListarAuditoriaUsuario(r, token, usuario_id)
        \/ FecharSessao(r)

SpecAdmin == InitAdmin /\ [][NextAdmin]_vars

\* the start of the application and the creation of accounts, two requests
\* (or starts) at a time
ReqsContas == {1, 2}

FormulariosContas == [username : {"admin"}, password : {"admin123"}]

PayloadsContas ==
    [email : {EmailAdmin, "ana@nortetel"}, username : {"admin", "ana", "bia"},
     senha : {"s3nha"}, is_admin : {FALSE}]

InitContas == BancoNovo(ReqsContas)

NextContas ==
    \E r \in ReqsContas :
        \/ Bootstrap(r)
        \/ BootstrapCommit(r)
        \/ \E form_data \in FormulariosContas : Login(r, form_data)
        \/ \E token \in TokensEmitidos, payload \in PayloadsContas :
               CriarUsuario(r, token, payload)
        \/ CriarUsuarioCommit(r)
        \/ RegistrarAuditoriaUsuario(r)
        \/ FecharSessao(r)

SpecContas == InitContas /\ [][NextContas]_vars

\* the handlers that write to the two audit tables and the two that read
\* them, one request at a time, with the failure of the commit of a log
NextTrilhas ==
    \E r \in Reqs :
        LET cabe == avaliacoes_auditoria_id_seq + Len(usuarios_auditoria)
                        < MaxEventos
        IN
        \/ \E form_data \in FormulariosAdmin :
               form_data.username = "admin" /\ Login(r, form_data)
        \/ \E token \in TokensEmitidos, payload \in PayloadsUsuario :
               /\ payload.username = "ana" /\ ~payload.is_admin
               /\ cabe /\ CriarUsuario(r, token, payload)
        \/ CriarUsuarioCommit(r)
        \/ \E token \in TokensEmitidos, usuario_id \in 1..MaxUsuarios + 1,
              ativo \in BOOLEAN :
               cabe /\ AtualizarStatusUsuario(r, token, usuario_id, ativo)
        \/ \E token \in TokensEmitidos, usuario_id \in 2..MaxUsuarios :
               cabe /\ ResetarSenhaUsuario(r, token, usuario_id)
        \/ RegistrarAuditoriaUsuario(r)
        \/ \E token \in TokensEmitidos, usuario_id \in 1..MaxUsuarios + 1 :
               ListarAuditoriaUsuario(r, token, usuario_id)
        \/ \E payload \in PayloadsCriar :
               /\ payload.data_avaliacao # None /\ payload.status = None
               /\ cabe /\ CriarAvaliacao(r, payload)
        \/ CriarAvaliacaoLog(r)
        \/ \E id \in IdsPedidos, payload \in PayloadsAtualizar :
               /\ payload.cliente_nome # None /\ NumCampos(payload) = 1
               /\ cabe /\ AtualizarAvaliacao(r, id, payload)
        \/ AtualizarAvaliacaoLog(r)
        \/ FalhaCommitLog(r)
        \/ \E id \in IdsPedidos, payload \in PayloadsEquipamento :
               /\ payload.modelo = None /\ ParaInteger(payload.quantidade) # None
               /\ cabe /\ AdicionarEquipamento(r, id, payload)
        \/ AdicionarLinhaLog(r)
        \/ \E id \in 1..MaxLinhas : cabe /\ RemoverEquipamento(r, id)
        \/ RemoverLinhaLog(r)
        \/ \E id \in 1..MaxAvaliacoes + 1 : ListarAuditoria(r, id)
        \/ FecharSessao(r)

SpecTrilhas == Init /\ [][NextTrilhas]_vars

\* the assessments created, updated and listed, one request at a time
NextLista ==
    \E r \in Reqs :
        \/ \E payload \in PayloadsCriar : CriarAvaliacao(r, payload)
        \/ CriarAvaliacaoLog(r)
        \/ \E id \in IdsPedidos, payload \in PayloadsAtualizar :
               /\ payload.cliente_nome # None
               /\ payload.status = None /\ payload.q3_tamanho_total_m = None
               /\ AtualizarAvaliacao(r, id, payload)
        \/ AtualizarAvaliacaoLog(r)
        \/ \E skip \in Opcional({-1, 0, 1}), limit \in Opcional({-1, 0, 1}) :
               ListarAvaliacoes(r, skip, limit)
        \/ FecharSessao(r)

SpecLista == Init /\ [][NextLista]_vars

\* an account created, deactivated and reactivated, and its token presented
\* in between, one request at a time
NextReativacao ==
    \E r \in Reqs :
        \/ \E form_data \in FormulariosAdmin :
               /\ form_data.password \in {"admin123", "s3nha"}
               /\ Login(r, form_data)
        \/ \E token \in TokensEmitidos : ObterMe(r, token)
        \/ \E token \in TokensEmitidos, payload \in PayloadsUsuario :
               /\ payload.username = "ana" /\ payload.email # EmailAdmin
               /\ ~payload.is_admin
               /\ CriarUsuario(r, token, payload)
        \/ CriarUsuarioCommit(r)
        \/ \E token \in TokensEmitidos, usuario_id \in 1..MaxUsuarios,
              ativo \in BOOLEAN :
               AtualizarStatusUsuario(r, token, usuario_id, ativo)
        \/ \E token \in TokensEmitidos, usuario_id \in 1..MaxUsuarios :
               ResetarSenhaUsuario(r, token, usuario_id)
        \/ RegistrarAuditoriaUsuario(r)
        \/ FalhaCommitLogUsuario(r)
        \/ FecharSessao(r)

SpecReativacao == Init /\ [][NextReativacao]_vars

\* the assessments with two requests in flight, an update being split
\* between its read and its two commits
NextConcorrente ==
    \E r \in ReqsContas :
        \/ \E payload \in PayloadsCriar :
               /\ payload.data_avaliacao # None /\ payload.status = None
               /\ CriarAvaliacao(r, payload)
        \/ CriarAvaliacaoLog(r)
        \/ \E id \in IdsPedidos, payload \in PayloadsAtualizar :
               /\ payload.cliente_nome # None /\ NumCampos(payload) = 1
               /\ AtualizarAvaliacaoLer(r, id, payload)
        \/ AtualizarAvaliacaoGravar(r)
        \/ AtualizarAvaliacaoLog(r)
        \/ FecharSessao(r)

SpecConcorrente == InitContas /\ [][NextConcorrente]_vars

\* the account administration with two requests in flight, from the start of
\* the application on, a status change being split between the dependency
\* that authenticates and the body that writes
NextAdmins ==
    \E r \in ReqsContas :
        \/ Bootstrap(r)
        \/ BootstrapCommit(r)
        \/ \E form_data \in FormulariosAdmin :
               /\ form_data.password \in {"admin123", "s3nha"}
               /\ Login(r, form_data)
        \/ \E token \in TokensEmitidos, payload \in PayloadsUsuario :
               /\ payload.username = "ana" /\ payload.email # EmailAdmin
               /\ payload.is_admin
               /\ CriarUsuario(r, token, payload)
        \/ CriarUsuarioCommit(r)
        \/ \E token \in TokensEmitidos, usuario_id \in 1..MaxUsuarios :
               StatusUsuarioAutenticar(r, token, usuario_id, FALSE)
        \/ StatusUsuarioGravar(r)
        \/ \E token \in TokensEmitidos, usuario_id \in 1..MaxUsuarios :
               ResetarSenhaUsuario(r, token, usuario_id)
        \/ RegistrarAuditoriaUsuario(r)
        \/ FecharSessao(r)

SpecAdmins == InitContas /\ [][NextAdmins]_vars

\* ------------------------------------------------------------------------
\* Notions the properties are stated in
\* ------------------------------------------------------------------------
\* request r has been answered for operation op
Respondida(r, op) == req[r].pc = "done" /\ req[r].op = op

\* the payload value pv of column nome denotes the column value sv
ValorIgual(nome, pv, sv) ==
    IF nome = "data_avaliacao" THEN Strptime(pv) = Some(sv)
    ELSE IF nome = "q3_tamanho_total_m" THEN sv # None /\ Milesimos(pv) = Milesimos(sv[1])
    ELSE pv = sv

\* the text is a date written as four, two and two digits
FormatoEstrito(t) == Strptime(t) # None /\ DataStr(Strptime(t)[1]) = t

\* the payload passes the checks of the handler on a stored record
PayloadAceito(r) ==
    /\ req[r].antes # None
    /\ req[r].payload.data_avaliacao # None =>
           Strptime(req[r].payload.data_avaliacao[1]) # None

TemEntrada(alteracoes, nome) == \E i \in 1..Len(alteracoes) : alteracoes[i].campo = nome

NomesCampos == {CamposAvaliacao[i] : i \in 1..Len(CamposAvaliacao)}

EventosDe(avaliacao_id, acao) ==
    {j \in 1..Len(avaliacoes_auditoria) :
        /\ avaliacoes_auditoria[j].avaliacao_id = avaliacao_id
        /\ avaliacoes_auditoria[j].acao = acao}

\* C1: every step that changes the stored assessment data appends the audit
\* event of that change in the same commit, and every audit event is
\* appended in the commit of its change (or of an update without changes).
C1_MutacaoComAuditoria ==
    [][/\ avaliacoes' # avaliacoes =>
              Len(avaliacoes_auditoria') = Len(avaliacoes_auditoria) + 1
       /\ avaliacoes_auditoria' # avaliacoes_auditoria =>
              \/ avaliacoes' # avaliacoes
              \/ avaliacoes_auditoria'[Len(avaliacoes_auditoria')].detalhes = SemAlteracoes
      ]_vars

\* C2: an update whose payload is accepted succeeds; its change list has an
\* entry for a field exactly when the field is present in the payload with a
\* value other than the stored one; an entry carries the field, the value
\* stored before and the payload value; afterwards every present field is
\* stored with the payload value.
C2_ListaDeAlteracoes ==
    \A r \in Reqs :
        Respondida(r, "atualizar") /\ PayloadAceito(r) =>
            /\ req[r].resposta.status = 200
            /\ LET av == req[r].antes[1]
                   p == req[r].payload
                   alt == req[r].alteracoes
                   atual == ObterAvaliacao(req[r].avaliacao_id)[1]
               IN /\ \A nome \in NomesCampos :
                         TemEntrada(alt, nome) <=>
                             (p[nome] # None /\ ~ValorIgual(nome, p[nome][1], av[nome]))
                  /\ \A i \in 1..Len(alt) :
                         /\ p[alt[i].campo] # None
                         /\ alt[i].depois = p[alt[i].campo][1]
                         /\ alt[i].antes = IF alt[i].campo = "data_avaliacao"
                                           THEN DataStr(av.data_avaliacao)
                                           ELSE av[alt[i].campo]
                  /\ \A nome \in NomesCampos :
                         p[nome] # None => ValorIgual(nome, p[nome][1], atual[nome])

C4_SegundaChamadaSemAlteracoes ==
    \A r \in Reqs :
        /\ Respondida(r, "atualizar")
        /\ req[r].resposta.status = 200
        /\ req[r].alteracoes # <<>>
        => LET av == ObterAvaliacao(req[r].avaliacao_id)
               p == req[r].payload
           IN /\ ErroAtualizar(av, p) = 0
              /\ CalcularAlteracoes(av[1], p) = <<>>
              /\ Persistida(AvaliacaoAlterada(av[1], p)) = av[1]

\* C5: an accepted update all of whose supplied values equal the stored ones
\* succeeds and appends exactly one EDITAR event, whose detail is the fixed
\* "no changes" text.
C5_SemAlteracoesAuditada ==
    \A r \in Reqs :
        /\ Respondida(r, "atualizar")
        /\ PayloadAceito(r)
        /\ \A nome \in NomesCampos :
               req[r].payload[nome] # None =>
                   ValorIgual(nome, req[r].payload[nome][1], req[r].antes[1][nome])
        => /\ req[r].resposta.status = 200
           /\ Len(avaliacoes_auditoria) = req[r].n_auditoria + 1
           /\ avaliacoes_auditoria[Len(avaliacoes_auditoria)] =
                  AvaliacaoAuditoria(avaliacoes_auditoria_id_seq, req[r].avaliacao_id,
                                     "EDITAR", SemAlteracoes)

\* C6: an update of a stored record whose data_avaliacao is not a date
\* written as YYYY-MM-DD is answered 400; a text that denotes the stored
\* date produces no change entry.
C6_DataValidada ==
    \A r \in Reqs :
        /\ Respondida(r, "atualizar")
        /\ req[r].antes # None
        /\ req[r].payload.data_avaliacao # None
        /\ req[r].payload.q3_tamanho_total_m = None
        => /\ ~FormatoEstrito(req[r].payload.data_avaliacao[1]) =>
                  req[r].resposta.status = 400
           /\ Strptime(req[r].payload.data_avaliacao[1]) = Some(req[r].antes[1].data_avaliacao)
                  => ~TemEntrada(req[r].alteracoes, "data_avaliacao")

SenhaDe(usuario) == usuario.senha_hash.resumo.senha

\* the rows of usuarios with that username
ContasDe(username) == {i \in 1..Len(usuarios) : usuarios[i].username = username}

\* slot r takes, in this step, a request of one of the operations ops
Atende(r, ops) == req[r].pc = "idle" /\ req'[r].op \in ops

OpsComToken == {"me", "criar_usuario", "status_usuario"}

\* the token carries the signature SECRET_KEY gives its payload
AssinaturaValida(t) == t.assinatura = Assinar(SECRET_KEY, t.payload)

\* C8: a login is answered 200, with a token of that username, exactly when
\* an account of the username is active and its hash was made of the
\* password; it is answered 400, and hands out no token, when the password is
\* wrong, the username unknown or the account inactive.
C8_Autenticacao ==
    [][\A r \in Reqs :
           Atende(r, {"login"}) =>
               LET f == req'[r].form_data
                   contas == {i \in ContasDe(f.username) :
                                 usuarios[i].ativo /\ SenhaDe(usuarios[i]) = f.password}
               IN IF contas = {}
                  THEN /\ req'[r].resposta = [status |-> 400, corpo |-> None]
                       /\ req'[r].usuario = None
                       /\ tokens' = tokens
                  ELSE /\ req'[r].resposta.status = 200
                       /\ req'[r].usuario \in {Some(usuarios[i]) : i \in contas}
                       /\ req'[r].resposta.corpo # None
                       /\ req'[r].resposta.corpo[1].payload.sub = Some(f.username)
                       /\ req'[r].resposta.corpo[1] \in tokens'
      ]_vars

\* a login with the password of an account that has been deactivated was
\* answered 400
C8_Witness ==
    \E r \in Reqs :
        /\ Respondida(r, "login")
        /\ req[r].resposta.status = 400
        /\ \E i \in ContasDe(req[r].form_data.username) :
               ~usuarios[i].ativo /\ SenhaDe(usuarios[i]) = req[r].form_data.password

\* C9: a request carrying a token that login has handed out, before the
\* expiry of the token, is taken as the username the token was issued for; a
\* token whose signature is not the one of its payload, whose payload has no
\* subject or whose expiry has passed is answered 401.
C9_TokenIdaEVolta ==
    [][\A r \in Reqs :
           Atende(r, OpsComToken) /\ req'[r].token # None =>
               LET t == req'[r].token[1]
               IN /\ t \in tokens /\ agora < t.payload.exp =>
                         /\ t.payload.sub # None
                         /\ req'[r].username = t.payload.sub
                  /\ ~AssinaturaValida(t) \/ t.payload.sub = None \/ agora > t.payload.exp =>
                         /\ req'[r].username = None
                         /\ req'[r].usuario = None
                         /\ req'[r].resposta = [status |-> 401, corpo |-> None]
      ]_vars

\* a token handed out by login was answered 401 after its expiry
C9_Witness ==
    \E r \in Reqs :
        /\ Respondida(r, "me")
        /\ req[r].token # None
        /\ req[r].token[1] \in tokens
        /\ req[r].token[1].payload.exp < agora
        /\ req[r].resposta.status = 401

OpsAdmin ==
    {"criar_usuario", "listar_usuarios", "status_usuario", "resetar_senha",
     "listar_auditoria_usuario"}

\* the active accounts a token stands for: the token is signed, not expired,
\* and its subject is their username
ContasDoToken(token) ==
    IF token = None THEN {}
    ELSE IF ~AssinaturaValida(token[1]) \/ token[1].payload.exp < agora
            \/ token[1].payload.sub = None THEN {}
    ELSE {i \in ContasDe(token[1].payload.sub[1]) : usuarios[i].ativo}

\* C11: a request of an administrator-only operation (create an account, list
\* the accounts, change a status, reset a password, read the audit trail of an
\* account) made as an account without the administrator role is answered
\* 403 at once and changes no account and no audit row; made as an
\* administrator, the handler runs as that very row.
C11_ApenasAdministradores ==
    [][\A r \in Reqs :
           Atende(r, OpsAdmin) =>
               \A i \in ContasDoToken(req'[r].token) :
                   IF usuarios[i].is_admin
                   THEN /\ req'[r].usuario = Some(usuarios[i])
                        /\ req'[r].resposta.status \notin {401, 403}
                   ELSE /\ req'[r].pc = "done"
                        /\ req'[r].resposta = [status |-> 403, corpo |-> None]
                        /\ usuarios' = usuarios
                        /\ usuarios_id_seq' = usuarios_id_seq
                        /\ usuarios_auditoria' = usuarios_auditoria
      ]_vars

\* an account without the role asked for the reset of a password and was
\* answered 403
C11_Witness ==
    \E r \in Reqs :
        /\ Respondida(r, "resetar_senha")
        /\ req[r].resposta.status = 403
        /\ \E i \in ContasDoToken(req[r].token) : ~usuarios[i].is_admin
        /\ ObterUsuario(usuarios, req[r].usuario_id) # None

\* the rows of usuarios other than the one of that id are left as they are
OutrosUsuariosIguais(usuario_id) ==
    /\ Len(usuarios') = Len(usuarios)
    /\ \A i \in 1..Len(usuarios) :
           usuarios[i].id # usuario_id => usuarios'[i] = usuarios[i]

\* C12: an administrator who asks for the deactivation of the own account is
\* answered 400 and nothing changes; the deactivation of any other existing
\* account is carried out and answered 200.
C12_NaoDesativaASiMesmo ==
    [][\A r \in Reqs :
           /\ Atende(r, {"status_usuario"}) /\ ~req'[r].payload.ativo =>
                  \A i \in ContasDoToken(req'[r].token) :
                      usuarios[i].is_admin =>
                          IF req'[r].usuario_id = usuarios[i].id
                          THEN /\ req'[r].pc = "done"
                               /\ req'[r].resposta = [status |-> 400, corpo |-> None]
                               /\ usuarios' = usuarios
                               /\ usuarios_auditoria' = usuarios_auditoria
                          ELSE \A j \in 1..Len(usuarios) :
                                   usuarios[j].id = req'[r].usuario_id =>
                                       /\ req'[r].pc = "status_usuario_log"
                                       /\ usuarios'[j] = [usuarios[j] EXCEPT !.ativo = FALSE]
                                       /\ OutrosUsuariosIguais(usuarios[j].id)
           /\ req[r].pc = "status_usuario_log" /\ req'[r].pc = "done" =>
                  /\ req'[r].resposta.status = 200
                  /\ req'[r].resposta.corpo = ObterUsuario(usuarios', req[r].usuario_id)
                  /\ req'[r].resposta.corpo # None
                  /\ req'[r].resposta.corpo[1].ativo = req[r].payload.ativo
      ]_vars

\* an administrator asked for the deactivation of the own account and was
\* answered 400, the account being active still
C12_Witness ==
    \E r \in Reqs :
        /\ Respondida(r, "status_usuario")
        /\ req[r].resposta.status = 400
        /\ req[r].usuario # None
        /\ req[r].usuario[1].id = req[r].usuario_id
        /\ \E i \in 1..Len(usuarios) :
               usuarios[i].id = req[r].usuario_id /\ usuarios[i].ativo

UltimoUsuario(db) == db[Len(db)]

\* C18: the account an administrator creates is active and has the flag that
\* forces a change of password; a login with its username and password that
\* follows is answered 200 with a token; the request appends exactly one
\* CRIAR_USUARIO event, whose target is the new account and whose actor is
\* the administrator.
C18_ContaCriada ==
    [][\A r \in Reqs :
           /\ req[r].pc = "criar_usuario_commit" /\ req'[r].pc = "criar_usuario_log" =>
                  LET payload == req[r].payload
                      novo == UltimoUsuario(usuarios')
                  IN /\ Len(usuarios') = Len(usuarios) + 1
                     /\ SubSeq(usuarios', 1, Len(usuarios)) = usuarios
                     /\ novo.ativo /\ novo.precisa_trocar_senha
                     /\ novo.username = payload.username
                     /\ novo.email = payload.email
                     /\ novo.is_admin = payload.is_admin
                     /\ novo.id = req'[r].usuario_id
                     /\ \A i \in 1..Len(usuarios) : usuarios[i].id # novo.id
                     /\ AutenticarUsuario(usuarios', payload.username, payload.senha)
                            = Some(novo)
                     /\ usuarios_auditoria' = usuarios_auditoria
           /\ req[r].pc = "criar_usuario_log" /\ req'[r].pc = "done" =>
                  LET novo == ObterUsuario(usuarios, req[r].usuario_id)[1]
                  IN /\ usuarios' = usuarios
                     /\ Len(usuarios_auditoria) = req[r].n_auditoria
                     /\ usuarios_auditoria' = Append(usuarios_auditoria,
                            [usuario_alvo_id |-> novo.id,
                             usuario_acao_id |-> Some(req[r].usuario[1].id),
                             acao |-> "CRIAR_USUARIO",
                             detalhes |-> [acao |-> "CRIAR_USUARIO",
                                           email |-> novo.email,
                                           username |-> novo.username]])
                     /\ req[r].usuario[1].is_admin
                     /\ req'[r].resposta = [status |-> 200, corpo |-> Some(novo)]
           /\ Atende(r, {"login"}) =>
                  \A i \in 1..Len(usuarios) :
                      /\ usuarios[i].username = req'[r].form_data.username
                      /\ SenhaDe(usuarios[i]) = req'[r].form_data.password
                      /\ usuarios[i].ativo /\ usuarios[i].precisa_trocar_senha
                      => /\ req'[r].resposta.status = 200
                         /\ req'[r].resposta.corpo # None
                         /\ req'[r].resposta.corpo[1] \in tokens'
                         /\ req'[r].resposta.corpo[1].payload.sub
                                = Some(usuarios[i].username)
      ]_vars

\* the account an administrator created has logged in with the password it
\* was created with, the flag still set, and the trail holds its
\* CRIAR_USUARIO event
C18_Witness ==
    \E r \in Reqs :
        /\ Respondida(r, "login")
        /\ req[r].resposta.status = 200
        /\ req[r].usuario[1].precisa_trocar_senha
        /\ \E k \in 1..Len(usuarios_auditoria) :
               /\ usuarios_auditoria[k].acao = "CRIAR_USUARIO"
               /\ usuarios_auditoria[k].usuario_alvo_id = req[r].usuario[1].id
               /\ usuarios_auditoria[k].usuario_acao_id # Some(req[r].usuario[1].id)

\* the passwords the model knows
TodasSenhas == Senhas \cup SenhasTemporarias

\* C17: the reset of the password of an existing account leaves it active,
\* with the flag that forces a change of password, accepted by login with the
\* temporary password the answer carries and with no other password, the
\* previous one included, and appends exactly one RESET_SENHA event that
\* names the administrator; for an id no account has the answer is 404 and
\* nothing changes.
C17_ResetDeSenha ==
    [][\A r \in Reqs :
           /\ Atende(r, {"resetar_senha"}) =>
                  \A i \in ContasDoToken(req'[r].token) :
                      usuarios[i].is_admin =>
                          IF ObterUsuario(usuarios, req'[r].usuario_id) = None
                          THEN /\ req'[r].pc = "done"
                               /\ req'[r].resposta = [status |-> 404, corpo |-> None]
                               /\ usuarios' = usuarios
                               /\ usuarios_auditoria' = usuarios_auditoria
                          ELSE \A j \in 1..Len(usuarios) :
                                   usuarios[j].id = req'[r].usuario_id =>
                                       /\ req'[r].pc = "resetar_senha_log"
                                       /\ OutrosUsuariosIguais(usuarios[j].id)
                                       /\ usuarios'[j].ativo
                                       /\ usuarios'[j].precisa_trocar_senha
                                       /\ [usuarios'[j] EXCEPT
                                              !.senha_hash = usuarios[j].senha_hash,
                                              !.precisa_trocar_senha =
                                                  usuarios[j].precisa_trocar_senha,
                                              !.ativo = usuarios[j].ativo] = usuarios[j]
                                       /\ SenhaDe(usuarios'[j]) # SenhaDe(usuarios[j])
                                       /\ \A s \in TodasSenhas :
                                              AutenticarUsuario(usuarios',
                                                  usuarios[j].username, s) # None
                                              <=> s = req'[r].payload.senha_temporaria
                                       /\ usuarios_auditoria' = usuarios_auditoria
           /\ req[r].pc = "resetar_senha_log" /\ req'[r].pc = "done" =>
                  LET alvo == ObterUsuario(usuarios, req[r].usuario_id)[1]
                  IN /\ usuarios' = usuarios
                     /\ Len(usuarios_auditoria) = req[r].n_auditoria
                     /\ usuarios_auditoria' = Append(usuarios_auditoria,
                            [usuario_alvo_id |-> alvo.id,
                             usuario_acao_id |-> Some(req[r].usuario[1].id),
                             acao |-> "RESET_SENHA",
                             detalhes |-> [acao |-> "RESET_SENHA",
                                           usuario_alvo |-> alvo.username]])
                     /\ req[r].usuario[1].is_admin
                     /\ req'[r].resposta.status = 200
                     /\ req'[r].resposta.corpo[1].senha_temporaria = SenhaDe(alvo)
      ]_vars

\* the password of an account that had changed its password was reset: the
\* flag is set again and the trail ends with the RESET_SENHA event
C17_Witness ==
    \E r \in Reqs :
        /\ Respondida(r, "resetar_senha")
        /\ req[r].resposta.status = 200
        /\ ~req[r].antes[1].precisa_trocar_senha
        /\ ObterUsuario(usuarios, req[r].usuario_id)[1].precisa_trocar_senha
        /\ SenhaDe(ObterUsuario(usuarios, req[r].usuario_id)[1])
               = req[r].resposta.corpo[1].senha_temporaria
        /\ usuarios_auditoria[Len(usuarios_auditoria)].acao = "RESET_SENHA"

\* C16: a change of password with a current password that is not the one of
\* the account is answered 400 and leaves the hash, the flag and the audit
\* trail as they were; with the right one, the hash is replaced so that login
\* accepts the new password and no other, the flag that forces the change is
\* cleared, and exactly one TROCAR_SENHA event is appended whose target and
\* actor are both the caller.
C16_TrocaDeSenha ==
    [][\A r \in Reqs :
           /\ Atende(r, {"trocar_senha"}) =>
                  \A i \in ContasDoToken(req'[r].token) :
                      IF SenhaDe(usuarios[i]) # req'[r].payload.senha_atual
                      THEN /\ req'[r].pc = "done"
                           /\ req'[r].resposta = [status |-> 400, corpo |-> None]
                           /\ usuarios' = usuarios
                           /\ usuarios_auditoria' = usuarios_auditoria
                      ELSE /\ req'[r].pc = "trocar_senha_log"
                           /\ req'[r].usuario_id = usuarios[i].id
                           /\ OutrosUsuariosIguais(usuarios[i].id)
                           /\ ~usuarios'[i].precisa_trocar_senha
                           /\ [usuarios'[i] EXCEPT
                                  !.senha_hash = usuarios[i].senha_hash,
                                  !.precisa_trocar_senha =
                                      usuarios[i].precisa_trocar_senha] = usuarios[i]
                           /\ \A s \in TodasSenhas :
                                  AutenticarUsuario(usuarios', usuarios[i].username, s)
                                      # None
                                  <=> s = req'[r].payload.nova_senha
                           /\ usuarios_auditoria' = usuarios_auditoria
           /\ req[r].pc = "trocar_senha_log" /\ req'[r].pc = "done" =>
                  LET chamador == req[r].usuario[1]
                  IN /\ usuarios' = usuarios
                     /\ Len(usuarios_auditoria) = req[r].n_auditoria
                     /\ usuarios_auditoria' = Append(usuarios_auditoria,
                            [usuario_alvo_id |-> chamador.id,
                             usuario_acao_id |-> Some(chamador.id),
                             acao |-> "TROCAR_SENHA",
                             detalhes |-> [acao |-> "TROCAR_SENHA",
                                           usuario |-> chamador.username]])
                     /\ req'[r].resposta.status = 200
      ]_vars

\* an account has replaced a password by another: the flag it had is cleared
\* and the trail ends with its TROCAR_SENHA event
C16_Witness ==
    \E r \in Reqs :
        /\ Respondida(r, "trocar_senha")
        /\ req[r].resposta.status = 200
        /\ req[r].antes[1].precisa_trocar_senha
        /\ SenhaDe(req[r].antes[1]) # req[r].payload.nova_senha
        /\ LET conta == ObterUsuario(usuarios, req[r].usuario_id)[1]
           IN /\ SenhaDe(conta) = req[r].payload.nova_senha
              /\ ~conta.precisa_trocar_senha
        /\ usuarios_auditoria[Len(usuarios_auditoria)].acao = "TROCAR_SENHA"

\* C15: criar_admin_se_nao_existir first looks for an account of the username
\* "admin"; when there is none it creates exactly one account, of that
\* username, administrator, active, with the flag that forces the change of
\* password and the password admin123; when there is one it changes nothing.
C15_BootstrapIdempotente ==
    [][\A r \in Reqs :
           /\ Atende(r, {"bootstrap"}) =>
                  /\ usuarios' = usuarios
                  /\ usuarios_id_seq' = usuarios_id_seq
                  /\ usuarios_auditoria' = usuarios_auditoria
                  /\ req'[r].pc = "done" <=> ContasDe("admin") # {}
           /\ req[r].pc = "bootstrap_commit" /\ req'[r].pc = "done"
              /\ ContasDe("admin") = {} =>
                  LET admin == UltimoUsuario(usuarios')
                  IN /\ Len(usuarios') = Len(usuarios) + 1
                     /\ SubSeq(usuarios', 1, Len(usuarios)) = usuarios
                     /\ admin.username = "admin"
                     /\ admin.is_admin /\ admin.ativo /\ admin.precisa_trocar_senha
                     /\ AutenticarUsuario(usuarios', "admin", "admin123") = Some(admin)
                     /\ usuarios_auditoria' = usuarios_auditoria
           /\ Cardinality(ContasDe("admin")) <= 1
      ]_vars

\* the application has started a second time and has left the one
\* administrator account, which has changed its password since, as it was
C15_Witness ==
    \E r \in Reqs :
        /\ Respondida(r, "bootstrap")
        /\ req[r].usuario_id = 0
        /\ Cardinality(ContasDe("admin")) = 1
        /\ \E i \in ContasDe("admin") : ~usuarios[i].precisa_trocar_senha

\* no two rows of usuarios have the same username, and no two the same e-mail
UsuariosUnicos(db) ==
    \A i, j \in 1..Len(db) :
        i # j => db[i].username # db[j].username /\ db[i].email # db[j].email

ExisteAdmin(db) == \E i \in 1..Len(db) : db[i].is_admin

\* C14: from the moment a run of criar_admin_se_nao_existir has ended, in
\* every state some account has the administrator role.
C14_SempreUmAdministrador ==
    [][/\ ExisteAdmin(usuarios) => ExisteAdmin(usuarios')
       /\ \A r \in DOMAIN req :
              req'[r].op = "bootstrap" /\ req'[r].pc = "done" => ExisteAdmin(usuarios')
      ]_vars

\* of two starts of the application that both found no administrator, the
\* second has ended on the constraint, and the administrator of the first is
\* there
C14_Witness ==
    \E r \in DOMAIN req :
        /\ Respondida(r, "bootstrap")
        /\ req[r].resposta.status = 500
        /\ ExisteAdmin(usuarios)
        /\ Len(usuarios) = 1

\* the fields of a line that its audit detail carries
CamposDaLinha(op, linha) ==
    IF op = "adicionar_equipamento"
    THEN [acao |-> op, equipamento |-> linha.equipamento, modelo |-> linha.modelo,
          quantidade |-> linha.quantidade, fabricante |-> linha.fabricante]
    ELSE [acao |-> op, descricao |-> linha.descricao, quantidade |-> linha.quantidade]

\* C20: the addition of an equipment line or of an other-resource line to an
\* id that no assessment has is answered 404 and creates no line and no
\* audit event; for an assessment that exists it creates exactly one line, of
\* that assessment, and appends exactly one event of that assessment,
\* ADD_EQUIPAMENTO or ADD_OUTRO_RECURSO, whose detail carries the fields of the
\* line.
C20_LinhaAdicionada ==
    [][\A r \in Reqs :
           /\ Atende(r, {"adicionar_equipamento", "adicionar_outro_recurso"}) =>
                  IF ObterAvaliacao(req'[r].avaliacao_id) = None
                  THEN /\ req'[r].pc = "done"
                       /\ req'[r].resposta = [status |-> 404, corpo |-> None]
                       /\ avaliacoes_equipamentos' = avaliacoes_equipamentos
                       /\ avaliacoes_outros_recursos' = avaliacoes_outros_recursos
                       /\ avaliacoes_auditoria' = avaliacoes_auditoria
                  ELSE /\ req'[r].pc = "adicionar_linha_log"
                       /\ req'[r].linha # None
                       /\ req'[r].linha[1].avaliacao_id = req'[r].avaliacao_id
                       /\ IF req'[r].op = "adicionar_equipamento"
                          THEN /\ avaliacoes_equipamentos' =
                                      Append(avaliacoes_equipamentos, req'[r].linha[1])
                               /\ \A i \in 1..Len(avaliacoes_equipamentos) :
                                      avaliacoes_equipamentos[i].id # req'[r].linha[1].id
                               /\ avaliacoes_outros_recursos' = avaliacoes_outros_recursos
                          ELSE /\ avaliacoes_outros_recursos' =
                                      Append(avaliacoes_outros_recursos, req'[r].linha[1])
                               /\ \A i \in 1..Len(avaliacoes_outros_recursos) :
                                      avaliacoes_outros_recursos[i].id # req'[r].linha[1].id
                               /\ avaliacoes_equipamentos' = avaliacoes_equipamentos
           /\ req[r].pc = "adicionar_linha_log" /\ req'[r].pc = "done" =>
                  /\ avaliacoes_equipamentos' = avaliacoes_equipamentos
                  /\ avaliacoes_outros_recursos' = avaliacoes_outros_recursos
                  /\ Len(avaliacoes_auditoria) = req[r].n_auditoria
                  /\ Len(avaliacoes_auditoria') = Len(avaliacoes_auditoria) + 1
                  /\ SubSeq(avaliacoes_auditoria', 1, Len(avaliacoes_auditoria))
                         = avaliacoes_auditoria
                  /\ LET log == avaliacoes_auditoria'[Len(avaliacoes_auditoria')]
                     IN /\ log.avaliacao_id = req[r].avaliacao_id
                        /\ log.acao = IF req[r].op = "adicionar_equipamento"
                                      THEN "ADD_EQUIPAMENTO" ELSE "ADD_OUTRO_RECURSO"
                        /\ log.detalhes = JsonObjeto(CamposDaLinha(req[r].op,
                                                                   req[r].linha[1]))
                  /\ req'[r].resposta = [status |-> 200, corpo |-> req[r].linha]
      ]_vars

\* C21: the removal of an equipment line, or of an other-resource line, that
\* exists takes exactly that line out of its table, every other line staying,
\* and appends one REMOVER_EQUIPAMENTO (REMOVER_OUTRO_RECURSO) event to the
\* trail of the assessment the line belonged to, with the values the line
\* had; the removal of an id no line has is answered 404 and changes nothing.
C21_LinhaRemovida ==
    [][\A r \in Reqs :
           /\ Atende(r, {"remover_equipamento", "remover_outro_recurso"}) =>
                  LET equip == req'[r].op = "remover_equipamento"
                      tabela == IF equip THEN avaliacoes_equipamentos
                                ELSE avaliacoes_outros_recursos
                      depois == IF equip THEN avaliacoes_equipamentos'
                                ELSE avaliacoes_outros_recursos'
                      ids == {tabela[i].id : i \in 1..Len(tabela)}
                      id == req'[r].usuario_id
                  IN /\ IF equip
                        THEN avaliacoes_outros_recursos' = avaliacoes_outros_recursos
                        ELSE avaliacoes_equipamentos' = avaliacoes_equipamentos
                     /\ avaliacoes_auditoria' = avaliacoes_auditoria
                     /\ avaliacoes' = avaliacoes
                     /\ IF id \notin ids
                        THEN /\ req'[r].pc = "done"
                             /\ req'[r].resposta = [status |-> 404, corpo |-> None]
                             /\ depois = tabela
                        ELSE /\ req'[r].pc = "remover_linha_log"
                             /\ Len(depois) = Len(tabela) - 1
                             /\ \A i \in 1..Len(depois) : depois[i].id # id
                             /\ \A i \in 1..Len(tabela) :
                                    tabela[i].id # id =>
                                        \E j \in 1..Len(depois) : depois[j] = tabela[i]
                             /\ \E i \in 1..Len(tabela) :
                                    tabela[i].id = id /\ req'[r].linha = Some(tabela[i])
           /\ req[r].pc = "remover_linha_log" /\ req'[r].pc = "done" =>
                  LET linha == req[r].linha[1]
                      equip == req[r].op = "remover_equipamento"
                  IN /\ avaliacoes_equipamentos' = avaliacoes_equipamentos
                     /\ avaliacoes_outros_recursos' = avaliacoes_outros_recursos
                     /\ Len(avaliacoes_auditoria) = req[r].n_auditoria
                     /\ Len(avaliacoes_auditoria') = Len(avaliacoes_auditoria) + 1
                     /\ SubSeq(avaliacoes_auditoria', 1, Len(avaliacoes_auditoria))
                            = avaliacoes_auditoria
                     /\ LET log == avaliacoes_auditoria'[Len(avaliacoes_auditoria')]
                        IN /\ log.avaliacao_id = linha.avaliacao_id
                           /\ log.acao = IF equip THEN "REMOVER_EQUIPAMENTO"
                                         ELSE "REMOVER_OUTRO_RECURSO"
                           /\ log.detalhes.formato = "json"
                           /\ log.detalhes.objeto.quantidade = linha.quantidade
                           /\ IF equip
                              THEN /\ log.detalhes.objeto.equipamento = linha.equipamento
                                   /\ log.detalhes.objeto.modelo = linha.modelo
                                   /\ log.detalhes.objeto.fabricante = linha.fabricante
                              ELSE log.detalhes.objeto.descricao = linha.descricao
                     /\ req'[r].resposta.status = 200
      ]_vars

\* one of two equipment lines of an assessment was removed: the other is in
\* the table and the trail ends with the REMOVER_EQUIPAMENTO event
C21_Witness ==
    \E r \in Reqs :
        /\ Respondida(r, "remover_equipamento")
        /\ req[r].resposta.status = 200
        /\ Len(avaliacoes_equipamentos) = 1
        /\ avaliacoes_equipamentos[1].id # req[r].linha[1].id
        /\ avaliacoes_equipamentos[1].avaliacao_id = req[r].linha[1].avaliacao_id
        /\ avaliacoes_auditoria[Len(avaliacoes_auditoria)].acao = "REMOVER_EQUIPAMENTO"

\* C22: the two audit trails only grow by appending: in every step each
\* table begins with the rows it had, unchanged and in their order, and so
\* does the trail of every assessment and of every account.
C22_TrilhasSoCrescem ==
    [][LET PrefixoDe(s, t) == Len(s) <= Len(t) /\ SubSeq(t, 1, Len(s)) = s IN
       /\ PrefixoDe(avaliacoes_auditoria, avaliacoes_auditoria')
       /\ PrefixoDe(usuarios_auditoria, usuarios_auditoria')
       /\ \A id \in 1..MaxAvaliacoes + 1 :
              PrefixoDe(SelectSeq(avaliacoes_auditoria,
                                  LAMBDA log : log.avaliacao_id = id),
                        SelectSeq(avaliacoes_auditoria',
                                  LAMBDA log : log.avaliacao_id = id))
       /\ \A id \in 1..MaxUsuarios + 1 :
              PrefixoDe(SelectSeq(usuarios_auditoria,
                                  LAMBDA log : log.usuario_alvo_id = id),
                        SelectSeq(usuarios_auditoria',
                                  LAMBDA log : log.usuario_alvo_id = id))
      ]_vars

\* an account with two events while an assessment has its creation and an
\* edit or a line event logged
C22_Witness ==
    /\ \E id \in 1..MaxUsuarios : Len(LogsDoUsuario(id)) >= 2
    /\ \E id \in 1..MaxAvaliacoes : Len(LogsDaAvaliacao(id)) >= 2

C24_ListaPaginada ==
    [][\A r \in Reqs :
           Atende(r, {"listar_avaliacoes"}) =>
               LET skip == req'[r].payload.skip
                   limit == req'[r].payload.limit
                   fim == IF skip + limit < Len(avaliacoes) THEN skip + limit
                          ELSE Len(avaliacoes)
               IN /\ UNCHANGED <<varsAvaliacoes, varsUsuarios, varsLinhas>>
                  /\ req'[r].pc = "done"
                  /\ IF skip < 0 \/ limit < 0
                     THEN req'[r].resposta.status \in {400, 422}
                     ELSE /\ req'[r].resposta.status = 200
                          /\ req'[r].resposta.corpo
                                 = Some(SubSeq(avaliacoes, skip + 1, fim))
      ]_vars

\* C25: no step deletes an account or changes the id, the role or the
\* username of one: the table only grows. A deactivation writes FALSE to the
\* ativo of its target and nothing else: every other column and every other
\* row stay, and the events logged so far stay.
C25_ContasPermanentes ==
    [][/\ Len(usuarios') >= Len(usuarios)
       /\ \A i \in 1..Len(usuarios) :
              /\ usuarios'[i].id = usuarios[i].id
              /\ usuarios'[i].is_admin = usuarios[i].is_admin
              /\ usuarios'[i].username = usuarios[i].username
       /\ Len(usuarios_auditoria') >= Len(usuarios_auditoria)
       /\ SubSeq(usuarios_auditoria', 1, Len(usuarios_auditoria)) = usuarios_auditoria
       /\ \A r \in Reqs :
              /\ Atende(r, {"status_usuario"})
              /\ req'[r].pc = "status_usuario_log"
              /\ ~req'[r].payload.ativo
              => /\ usuarios_auditoria' = usuarios_auditoria
                 /\ \E i \in 1..Len(usuarios) :
                        /\ usuarios[i].id = req'[r].usuario_id
                        /\ usuarios' = [usuarios EXCEPT ![i].ativo = FALSE]
      ]_vars

\* an account that was created and then deactivated: its row is in the
\* table, inactive, with the flag and the two events it had
C25_Witness ==
    \E i \in 1..Len(usuarios) :
        /\ ~usuarios[i].ativo
        /\ usuarios[i].precisa_trocar_senha
        /\ Len(LogsDoUsuario(usuarios[i].id)) = 2
        /\ \E r \in Reqs : Respondida(r, "status_usuario") /\ req[r].resposta.status = 200

\* C26: an update answered 404 (no assessment has the id) or 400 (the text
\* of data_avaliacao does not parse) leaves the table of assessments and the
\* audit trail as they were, in the step that answers and in the one that
\* closes its session, whatever else the payload carries.
C26_FalhaNaoGrava ==
    [][\A r \in Reqs :
           /\ Atende(r, {"atualizar"}) /\ req'[r].resposta.status \in {400, 404}
              => /\ req'[r].pc = "done"
                 /\ avaliacoes' = avaliacoes
                 /\ avaliacoes_auditoria' = avaliacoes_auditoria
                 /\ req'[r].resposta.status = 404
                        <=> \A i \in 1..Len(avaliacoes) :
                                avaliacoes[i].id # req'[r].avaliacao_id
           /\ Respondida(r, "atualizar") /\ req[r].resposta.status \in {400, 404}
              => /\ avaliacoes' = avaliacoes
                 /\ avaliacoes_auditoria' = avaliacoes_auditoria
      ]_vars

\* an update answered 400 for its date whose cliente_nome differs from the
\* stored one
C26_Witness ==
    \E r \in Reqs :
        /\ Respondida(r, "atualizar")
        /\ req[r].resposta.status = 400
        /\ req[r].payload.cliente_nome # None
        /\ \E i \in 1..Len(avaliacoes) :
               /\ avaliacoes[i].id = req[r].avaliacao_id
               /\ avaliacoes[i].cliente_nome # req[r].payload.cliente_nome[1]

\* C27: once the bootstrap has created the administrator, every state has
\* an account that is an administrator and active, whatever the
\* interleaving of the requests in flight.
C27_SempreUmAdminAtivo ==
    usuarios # <<>> =>
        \E i \in 1..Len(usuarios) : usuarios[i].is_admin /\ usuarios[i].ativo

\* C28: a request that presents an issued, unexpired token of an account
\* that is inactive when the request starts is answered 401 and writes
\* nothing, and a login with that account's name gets no token; a status
\* change to active and a password reset leave their target active; and a
\* request with an issued, unexpired token of an active account is not
\* answered 401 (GET /auth/me answers 200 with the account), whether or not
\* the account was inactive before.
C28_TokenSegueAConta ==
    [][\A r \in Reqs :
           /\ Atende(r, {"me", "criar_usuario", "status_usuario", "resetar_senha"})
              /\ req'[r].token # None /\ req'[r].token[1] \in tokens
              /\ req'[r].token[1].payload.exp >= agora =>
                  LET contas == ContasDe(req'[r].token[1].payload.sub[1])
                  IN /\ contas # {} /\ (\A i \in contas : ~usuarios[i].ativo) =>
                            /\ req'[r].pc = "done"
                            /\ req'[r].resposta = [status |-> 401, corpo |-> None]
                            /\ usuarios' = usuarios
                            /\ usuarios_auditoria' = usuarios_auditoria
                     /\ (\E i \in contas : usuarios[i].ativo) =>
                            /\ req'[r].resposta.status # 401
                            /\ req'[r].op = "me" =>
                                   /\ req'[r].resposta.status = 200
                                   /\ \E i \in contas :
                                          req'[r].resposta.corpo = Some(usuarios[i])
           /\ Atende(r, {"login"})
              /\ ContasDe(req'[r].form_data.username) # {}
              /\ (\A i \in ContasDe(req'[r].form_data.username) : ~usuarios[i].ativo) =>
                  /\ req'[r].resposta.status \notin {0, 200}
                  /\ req'[r].resposta.corpo = None
                  /\ tokens' = tokens
           /\ \/ Atende(r, {"resetar_senha"}) /\ req'[r].pc = "resetar_senha_log"
              \/ /\ Atende(r, {"status_usuario"}) /\ req'[r].pc = "status_usuario_log"
                 /\ req'[r].payload.ativo
              => \E i \in 1..Len(usuarios') :
                     usuarios'[i].id = req'[r].usuario_id /\ usuarios'[i].ativo
      ]_vars

\* GET /auth/me answered 200 for the token of an account that was
\* deactivated and then reactivated by a reset, after which the password the
\* token was issued for no longer logs in
C28_Witness ==
    \E r \in Reqs :
        /\ Respondida(r, "me")
        /\ req[r].resposta.status = 200
        /\ Len(usuarios_auditoria) = 2
        /\ usuarios_auditoria[1].acao = "DESATIVAR_USUARIO"
        /\ usuarios_auditoria[2].acao = "RESET_SENHA"
        /\ usuarios_auditoria[1].usuario_alvo_id = req[r].usuario[1].id
        /\ usuarios_auditoria[2].usuario_alvo_id = req[r].usuario[1].id

\* C29: when no request is between its read and its log, the EDITAR events
\* of an assessment tell the history of its cliente_nome: each entry's
\* "antes" is the "depois" of the entry before it, and the "depois" of the
\* last entry is the stored value.
C29_HistoricoConsistente ==
    (\A r \in DOMAIN req : req[r].pc \in {"idle", "done"}) =>
        \A i \in 1..Len(avaliacoes) :
            LET DoCampo(log) == {k \in 1..Len(log.detalhes.alteracoes) :
                                     log.detalhes.alteracoes[k].campo = "cliente_nome"}
                logs == SelectSeq(avaliacoes_auditoria,
                            LAMBDA log : /\ log.avaliacao_id = avaliacoes[i].id
                                         /\ log.acao = "EDITAR"
                                         /\ DoCampo(log) # {})
                Entrada_(n) == logs[n].detalhes.alteracoes[CHOOSE k \in DoCampo(logs[n]) : TRUE]
            IN /\ \A n \in 2..Len(logs) : Entrada_(n).antes = Entrada_(n - 1).depois
               /\ logs # <<>> => Entrada_(Len(logs)).depois = avaliacoes[i].cliente_nome

\* C30: the trail of an assessment that has events begins with its CRIAR
\* event and has no other CRIAR event.
C30_CriarPrimeiro ==
    \A id \in 1..MaxAvaliacoes :
        LET logs == SelectSeq(avaliacoes_auditoria, LAMBDA log : log.avaliacao_id = id)
        IN logs # <<>> =>
               /\ logs[1].acao = "CRIAR"
               /\ \A n \in 2..Len(logs) : logs[n].acao # "CRIAR"

====
